---- MODULE Spec2Model ----
(***************************************************************************)
(* Model of the repository synchronization engine of GitHub-Heart          *)
(* (src-tauri/src/git/clone.rs, git/operations.rs, git/auth.rs,            *)
(* commands/git.rs).                                                       *)
(*                                                                         *)
(* The specifications share the variables of this module:                  *)
(*   SpecClone   CloneManager::clone_repository_sync and its progress      *)
(*               events (embedded path and system-git path);               *)
(*   SpecAuth    the credentials callbacks and the transport that invokes  *)
(*               them;                                                     *)
(*   SpecSync    fetch / pull (merge, rebase) / push on a repository;      *)
(*   SpecBranch  switch_branch on a repository;                            *)
(*   SpecBranches  a sequence of branch commands (create, switch, delete,  *)
(*               checkout of a remote branch) on a repository;             *)
(*   SpecCancel  the calls on the table of cancelled clone operations;     *)
(*   SpecCloneCancel  one clone while operation ids are marked cancelled;  *)
(*   SpecSystemGit  one run of the git executable against its time limit;  *)
(*   SpecTokens  the token cache commands of two concurrent callers;       *)
(*   SpecUrl     the functions that classify a repository URL;             *)
(*   SpecRemote  the detection of the default remote of a repository.      *)
(* Each specification leaves the variables of the other parts at their     *)
(* initial values.                                                         *)
(***************************************************************************)
EXTENDS Integers, Sequences, FiniteSets, TLC

VARIABLES
    \* ---- clone ----
    options,           \* CloneOptions of the call
    fs,                \* the file system at the destination
    fs0,               \* the file system when the call started (history)
    clonePc,           \* position inside clone_repository_sync
    events,            \* every CloneProgress emitted on "clone-progress", in order
    network_progress,  \* ProgressData.network_progress of the embedded clone
    callbacks_fired,   \* number of transfer_progress callbacks so far
    submodules_left,   \* submodules still to clone in clone_submodules
    lg_error,          \* the error clone_with_libgit2 returned, or NoError
    clone_started,     \* history: builder.clone was called
    system_git_runs,   \* history: number of times clone_with_system_git was entered
    clone_result,      \* what clone_repository_sync returned, or NoResult
    \* ---- credentials ----
    auth_call,         \* the operation whose transport asks for credentials
    authPc,            \* "need": the transport asks; "sent": credentials are with the
                       \* server; "success" / "failed": the operation ended
    auth_attempts,     \* the auth_attempts counter of create_authenticated_callbacks
    creds_handed,      \* history: every credential a callback returned, in order
    server_rejects,    \* number of credentials the server has rejected
    auth_error,        \* the error the operation ended with, or NoError
    \* ---- repository ----
    commits,           \* the object database: commits[c] is the commit with id c
    branches,          \* refs/heads: local branch name -> commit id
    tracking,          \* refs/remotes: remote-tracking branch name -> commit id
    upstream,          \* branch.<name>.remote/merge: local branch -> tracking name or None
    remote_tip,        \* the commit the branch points to in the remote repository
    head,              \* HEAD: attached to a branch, or detached at a commit
    index,             \* the repository index: a tree, and the conflicted paths
    worktree,          \* the working tree: path -> content
    rebase,            \* the rebase in progress (.git/rebase-merge), or NoRebase
    merge_head,        \* MERGE_HEAD: the commit of a merge in progress, or 0
    \* ---- one sync or branch operation ----
    syncPc,            \* position inside the running operation
    sync_op,           \* the operation and its arguments
    pre,               \* the repository when the operation started (history)
    sync_result,       \* what the operation returned, or NoResult
    commands_done,     \* history: number of branch commands that have returned
    \* ---- GitState ----
    clone_operations,  \* GitState.clone_operations: a map from operation ids to booleans
    last_call,         \* history: per id, the last of cancel / cleanup called on it
    status_reply,      \* the last command on GitState, its id and what it returned
    \* ---- one run of the git executable ----
    system_git,        \* the command, its position, the seconds elapsed, its result
    \* ---- the token cache ----
    token_store,       \* the store "tokens.dat": domain -> TokenConfig, or NoToken
    token_store0,      \* history: the store before any of the commands ran
    token_calls,       \* per caller: the command it runs, its position and its locals
    now,               \* chrono::Utc::now().timestamp()
    \* ---- URL classification ----
    classified,        \* a URL and what each classifying function returned for it
    \* ---- default remote detection ----
    default_remote     \* a repository configuration and what get_default_remote_name
                       \* returned for it

cloneVars == <<options, fs, fs0, clonePc, events, network_progress, callbacks_fired,
               submodules_left, lg_error, clone_started, system_git_runs, clone_result>>

authVars == <<auth_call, authPc, auth_attempts, creds_handed, server_rejects, auth_error>>

repoVars == <<commits, branches, tracking, upstream, remote_tip, head, index, worktree,
              rebase, merge_head>>

syncVars == <<repoVars, syncPc, sync_op, pre, sync_result>>

stateVars == <<clone_operations, last_call, status_reply>>

tokenVars == <<token_store, token_store0, token_calls, now>>

vars == <<cloneVars, authVars, syncVars, commands_done, stateVars, system_git, tokenVars,
          classified, default_remote>>

\* What the actions of one part leave alone.
notCloneVars ==
    <<authVars, syncVars, commands_done, stateVars, system_git, tokenVars, classified, default_remote>>
notAuthVars ==
    <<cloneVars, syncVars, commands_done, stateVars, system_git, tokenVars, classified, default_remote>>
notSyncVars ==
    <<cloneVars, authVars, commands_done, stateVars, system_git, tokenVars, classified, default_remote>>
notBranchVars ==
    <<cloneVars, authVars, stateVars, system_git, tokenVars, classified, default_remote>>
notStateVars ==
    <<cloneVars, authVars, syncVars, commands_done, system_git, tokenVars, classified, default_remote>>
notSystemGitVars ==
    <<cloneVars, authVars, syncVars, commands_done, stateVars, tokenVars, classified, default_remote>>
notUrlVars ==
    <<cloneVars, authVars, syncVars, commands_done, stateVars, system_git, tokenVars,
      default_remote>>
notRemoteVars ==
    <<cloneVars, authVars, syncVars, commands_done, stateVars, system_git, tokenVars,
      classified>>
notTokenVars ==
    <<cloneVars, authVars, syncVars, commands_done, stateVars, system_git, classified, default_remote>>

(***************************************************************************)
(* Bounds of the model.                                                    *)
(***************************************************************************)
MaxChain == 2
MaxRejects == 4
MaxObjects == 2
MaxCallbacks == 2
MaxSubmodules == 1
MaxCommands == 2
TimeoutTicks == 3    \* the 30-second limit, in units of ten seconds
MaxTime == 2         \* the clock read by the token commands runs from 0 to MaxTime

(***************************************************************************)
(* Text.  A URL is the sequence of its characters, so that starts_with is  *)
(* computed and not assumed.                                               *)
(***************************************************************************)
StartsWith(s, p) == Len(s) >= Len(p) /\ SubSeq(s, 1, Len(p)) = p

P_http == <<"h","t","t","p",":","/","/">>
P_https == <<"h","t","t","p","s",":","/","/">>
P_git_at == <<"g","i","t","@">>
P_ssh == <<"s","s","h",":","/","/">>

U_empty == <<>>
U_https == P_https \o <<"h","/","r">>
U_http == P_http \o <<"h","/","r">>
U_git_at == P_git_at \o <<"h",":","r">>
U_ssh == P_ssh \o <<"h","/","r">>
U_user_at == <<"a","l","@","h",":","r">>
U_ftp == <<"f","t","p",":","/","/","h","/","r">>
U_path == <<"/","t","m","p","/","r">>

Urls == {U_empty, U_https, U_http, U_git_at, U_ssh, U_user_at, U_ftp, U_path}

\* The destination directory string of the options: empty or a path.
Directories == {"", "dest"}

(***************************************************************************)
(* Errors.  A git2::Error is its class and its message; to_string() is the *)
(* message followed by "; class=<Class> (<n>)".                            *)
(***************************************************************************)
NoError == [type |-> "none"]
NoResult == [kind |-> "none"]

Git2Errors ==
    { [class |-> "Ssh", msg |-> "hostkey_preference"],
      [class |-> "Ssh", msg |-> "methods_not_supported"],
      [class |-> "Ssh", msg |-> "auth_failed"],
      [class |-> "Net", msg |-> "connect_failed"],
      \* "failed to resolve address for hostkey.example.com"
      [class |-> "Net", msg |-> "resolve_hostkey_host"],
      [class |-> "Http", msg |-> "auth_required"],
      [class |-> "Invalid", msg |-> "exists_not_empty"] }

GitErr(e) == [type |-> "git", class |-> e.class, msg |-> e.msg]
SimpleErr(t) == [type |-> t]

\* error.to_string().contains(pattern)
ErrorContains(e, pattern) ==
    CASE pattern = "hostkey preference" -> e.msg = "hostkey_preference"
      [] pattern = "The requested method(s) are not currently supported" ->
            e.msg = "methods_not_supported"
      [] pattern = "class=Ssh" -> e.class = "Ssh"
      [] pattern = "hostkey" -> e.msg \in {"hostkey_preference", "resolve_hostkey_host"}
      [] pattern = "method(s) are not currently supported" ->
            e.msg = "methods_not_supported"
      [] OTHER -> FALSE

\* A test for the word "hostkey" alone.
is_ssh_hostkey_error_AnyHostkey(e) ==
    \/ ErrorContains(e, "hostkey")
    \/ ErrorContains(e, "The requested method(s) are not currently supported")
    \/ ErrorContains(e, "class=Ssh")

is_ssh_hostkey_error(e) ==
    \/ ErrorContains(e, "hostkey preference")
    \/ ErrorContains(e, "The requested method(s) are not currently supported")
    \/ ErrorContains(e, "class=Ssh")

(***************************************************************************)
(* validate_clone_options                                                  *)
(***************************************************************************)
UrlHasKnownPrefix(url) ==
    \/ StartsWith(url, P_http)
    \/ StartsWith(url, P_https)
    \/ StartsWith(url, P_git_at)
    \/ StartsWith(url, P_ssh)

validate_clone_options(o) ==
    IF o.url = <<>> THEN SimpleErr("invalid_url")
    ELSE IF ~UrlHasKnownPrefix(o.url) THEN SimpleErr("invalid_url")
    ELSE IF o.directory = "" THEN SimpleErr("unknown")
    ELSE NoError

(***************************************************************************)
(* The destination.  dest is what is at options.directory:                 *)
(*   "absent", "empty" (an empty directory), "nonempty" (a directory with  *)
(*   entries), "unlistable" (it exists and read_dir fails: a regular file, *)
(*   a directory that cannot be read), "repo" (a clone's result).          *)
(***************************************************************************)
DestKinds == {"absent", "empty", "nonempty", "unlistable"}

\* Mutation of DestinationOccupied: the directory check lets every destination pass.
DestinationOccupied_Never(f) == FALSE

\* target_path.exists() && target_path.read_dir().map_or(false, |mut i| i.next().is_some())
DestinationOccupied(f) == f.dest \in {"nonempty", "repo"}

(***************************************************************************)
(* Progress events.                                                        *)
(***************************************************************************)
EmbeddedId == 1      \* the Uuid drawn by clone_with_libgit2
SystemId == 2        \* the Uuid drawn by clone_with_system_git

Event(id, stage, progress) == [id |-> id, stage |-> stage, progress |-> progress]

emit_progress(id, stage, progress) == events' = Append(events, Event(id, stage, progress))

\* (10.0 + received/total*70.0 + indexed/total*20.0) as u32, evaluated in f64:
\* the triples below are those whose f64 sum falls just under the exact integer.
F64Shortfall == { <<1, 1, 3>>, <<1, 1, 6>>, <<2, 2, 6>> }

calculate_progress(np) ==
    IF np.total_objects = 0 THEN 0
    ELSE LET exact == 10 + (70 * np.received_objects + 20 * np.indexed_objects)
                              \div np.total_objects
         IN IF <<np.received_objects, np.indexed_objects, np.total_objects>> \in F64Shortfall
            THEN exact - 1 ELSE exact

NoProgress == [received_objects |-> 0, total_objects |-> 0, indexed_objects |-> 0]

\* What git2 reports to transfer_progress: the total is fixed once known, the
\* counters never decrease, indexed <= received <= total.
NextProgress(np) ==
    { q \in [received_objects : 0..MaxObjects, total_objects : 0..MaxObjects,
             indexed_objects : 0..MaxObjects] :
        /\ (np.total_objects > 0 => q.total_objects = np.total_objects)
        /\ q.received_objects >= np.received_objects
        /\ q.indexed_objects >= np.indexed_objects
        /\ q.indexed_objects <= q.received_objects
        /\ q.received_objects <= q.total_objects }

TransferComplete(np) ==
    /\ np.received_objects = np.total_objects
    /\ np.indexed_objects = np.total_objects

(***************************************************************************)
(* CloneManager::clone_with_libgit2, step by step.                         *)
(***************************************************************************)
\* clone_with_libgit2 returns Err(e) (or Ok when e = NoError) to clone_repository_sync.
LgReturn(e) ==
    /\ lg_error' = e
    /\ clonePc' = "lg_returned"

\* lines 42-46: validate the options, then emit Initializing.
LgValidate ==
    /\ clonePc = "start"
    /\ LET err == validate_clone_options(options)
       IN IF err # NoError
          THEN LgReturn(err) /\ UNCHANGED events
          ELSE /\ emit_progress(EmbeddedId, "Initializing", 0)
               /\ clonePc' = "lg_check_dir"
               /\ UNCHANGED lg_error
    /\ UNCHANGED <<options, fs, fs0, network_progress, callbacks_fired, submodules_left,
                   clone_started, system_git_runs, clone_result>>
    /\ UNCHANGED notCloneVars

\* lines 48-63: the destination must be absent or empty; create the parent directories.
LgCheckDir ==
    /\ clonePc = "lg_check_dir"
    /\ IF DestinationOccupied(fs)
       THEN LgReturn(SimpleErr("directory_exists")) /\ UNCHANGED fs
       ELSE \/ /\ fs' = [fs EXCEPT !.parent = TRUE]
               /\ clonePc' = "lg_connect"
               /\ UNCHANGED lg_error
            \/ /\ ~fs.parent           \* create_dir_all fails
               /\ LgReturn(SimpleErr("io"))
               /\ UNCHANGED fs
    /\ UNCHANGED <<options, fs0, events, network_progress, callbacks_fired, submodules_left,
                   clone_started, system_git_runs, clone_result>>
    /\ UNCHANGED notCloneVars

\* lines 156-160: emit Connecting and call builder.clone.
LgConnect ==
    /\ clonePc = "lg_connect"
    /\ emit_progress(EmbeddedId, "Connecting", 10)
    /\ clone_started' = TRUE
    /\ clonePc' = "lg_clone"
    /\ UNCHANGED <<options, fs, fs0, network_progress, callbacks_fired, submodules_left,
                   lg_error, system_git_runs, clone_result>>
    /\ UNCHANGED notCloneVars

\* lines 114-131: the transfer_progress callback, fired by the running clone.
LgTransferProgress ==
    /\ clonePc = "lg_clone"
    /\ fs.dest \in {"absent", "empty"}
    /\ callbacks_fired < MaxCallbacks
    /\ \E q \in NextProgress(network_progress) :
          /\ network_progress' = q
          /\ emit_progress(EmbeddedId, "Downloading", calculate_progress(q))
    /\ callbacks_fired' = callbacks_fired + 1
    /\ UNCHANGED <<options, fs, fs0, clonePc, submodules_left, lg_error, clone_started,
                   system_git_runs, clone_result>>
    /\ UNCHANGED notCloneVars

\* lines 160-161: builder.clone returned Ok(repo).
LgCloneOk ==
    /\ clonePc = "lg_clone"
    /\ fs.dest \in {"absent", "empty"}
    /\ TransferComplete(network_progress)
    /\ fs' = [fs EXCEPT !.dest = "repo"]
    /\ clonePc' = "lg_checkout"
    /\ UNCHANGED <<options, fs0, events, network_progress, callbacks_fired, submodules_left,
                   lg_error, clone_started, system_git_runs, clone_result>>
    /\ UNCHANGED notCloneVars

\* The errors builder.clone can end with at this destination.
CloneFailures(f) ==
    IF f.dest = "unlistable"
    THEN { e \in Git2Errors : e.msg = "exists_not_empty" }
    ELSE { e \in Git2Errors : e.msg # "exists_not_empty" }

\* Mutation of LgCloneFail: Error is emitted but the function goes on to the
\* checkout instead of returning.
LgCloneFail_Continues ==
    /\ clonePc = "lg_clone"
    /\ emit_progress(EmbeddedId, "Error", 0)
    /\ clonePc' = "lg_checkout"
    /\ UNCHANGED <<options, fs, fs0, network_progress, callbacks_fired, submodules_left,
                   lg_error, clone_started, system_git_runs, clone_result>>
    /\ UNCHANGED notCloneVars

\* lines 162-182: builder.clone returned Err(e): emit Error and return Err(Git(e)).
LgCloneFail ==
    /\ clonePc = "lg_clone"
    /\ \E e \in CloneFailures(fs) : LgReturn(GitErr(e))
    /\ emit_progress(EmbeddedId, "Error", 0)
    /\ UNCHANGED <<options, fs, fs0, network_progress, callbacks_fired, submodules_left,
                   clone_started, system_git_runs, clone_result>>
    /\ UNCHANGED notCloneVars

\* lines 185-191: emit CheckingOut; recurse into submodules when asked to.
LgCheckout ==
    /\ clonePc = "lg_checkout"
    /\ emit_progress(EmbeddedId, "CheckingOut", 80)
    /\ clonePc' = IF options.recursive THEN "lg_submodules" ELSE "lg_finish"
    /\ UNCHANGED <<options, fs, fs0, network_progress, callbacks_fired, submodules_left,
                   lg_error, clone_started, system_git_runs, clone_result>>
    /\ UNCHANGED notCloneVars

\* The errors a submodule clone or repo.submodules() can end with.
SubmoduleFailures == { e \in Git2Errors : e.msg # "exists_not_empty" }

\* clone_submodules, lines 245-248: emit 85 and list the submodules.
LgSubmodulesBegin ==
    /\ clonePc = "lg_submodules"
    /\ emit_progress(EmbeddedId, "CheckingOut", 85)
    /\ \/ /\ \E n \in 0..MaxSubmodules : submodules_left' = n
          /\ clonePc' = "lg_submodule"
          /\ UNCHANGED lg_error
       \/ /\ \E e \in SubmoduleFailures : LgReturn(GitErr(e))
          /\ UNCHANGED submodules_left
    /\ UNCHANGED <<options, fs, fs0, network_progress, callbacks_fired, clone_started,
                   system_git_runs, clone_result>>
    /\ UNCHANGED notCloneVars

\* clone_submodules, lines 250-260: one iteration of the loop.
LgSubmodule ==
    /\ clonePc = "lg_submodule"
    /\ submodules_left > 0
    /\ emit_progress(EmbeddedId, "CheckingOut", 90)
    /\ \/ /\ submodules_left' = submodules_left - 1
          /\ UNCHANGED <<clonePc, lg_error>>
       \/ /\ \E e \in SubmoduleFailures : LgReturn(GitErr(e))
          /\ UNCHANGED submodules_left
    /\ UNCHANGED <<options, fs, fs0, network_progress, callbacks_fired, clone_started,
                   system_git_runs, clone_result>>
    /\ UNCHANGED notCloneVars

\* clone_submodules, line 262: the loop is over.
LgSubmodulesDone ==
    /\ clonePc = "lg_submodule"
    /\ submodules_left = 0
    /\ clonePc' = "lg_finish"
    /\ UNCHANGED <<options, fs, fs0, events, network_progress, callbacks_fired,
                   submodules_left, lg_error, clone_started, system_git_runs, clone_result>>
    /\ UNCHANGED notCloneVars

\* The errors get_repository_info and calculate_stats can end with.
InfoFailures ==
    { [class |-> "Reference", msg |-> "unborn_head"],
      [class |-> "Odb", msg |-> "odb_read"] }

\* Mutation of LgFinish: Ok is returned without the Completed event.
LgFinish_WithoutCompleted ==
    /\ clonePc = "lg_finish"
    /\ network_progress.total_objects > 0
    /\ LgReturn(NoError)
    /\ UNCHANGED <<options, fs, fs0, events, network_progress, callbacks_fired,
                   submodules_left, clone_started, system_git_runs, clone_result>>
    /\ UNCHANGED notCloneVars

\* lines 193-210: repository info and statistics, then emit Completed and return Ok.
LgFinish ==
    /\ clonePc = "lg_finish"
    /\ \/ /\ \E e \in InfoFailures : LgReturn(GitErr(e))
          /\ UNCHANGED events
       \/ /\ network_progress.total_objects > 0
          /\ emit_progress(EmbeddedId, "Completed", 100)
          /\ LgReturn(NoError)
    /\ UNCHANGED <<options, fs, fs0, network_progress, callbacks_fired, submodules_left,
                   clone_started, system_git_runs, clone_result>>
    /\ UNCHANGED notCloneVars

(***************************************************************************)
(* CloneManager::clone_with_system_git, step by step.                      *)
(***************************************************************************)
CloneReturn(r) ==
    /\ clone_result' = r
    /\ clonePc' = "returned"

OkResult(id) == [kind |-> "ok", id |-> id]
ErrResult(e) == [kind |-> "err", error |-> e]

\* lines 365-373: emit Initializing under a fresh id, then check_system_git.
SysStart ==
    /\ clonePc = "sys_start"
    /\ system_git_runs' = system_git_runs + 1
    /\ emit_progress(SystemId, "Initializing", 0)
    /\ \/ clonePc' = "sys_connect" /\ UNCHANGED clone_result
       \/ CloneReturn(ErrResult(SimpleErr("system_git_not_found")))
    /\ UNCHANGED <<options, fs, fs0, network_progress, callbacks_fired, submodules_left,
                   lg_error, clone_started>>
    /\ UNCHANGED notCloneVars

\* lines 375-409: build the command, emit Connecting.
SysConnect ==
    /\ clonePc = "sys_connect"
    /\ emit_progress(SystemId, "Connecting", 20)
    /\ clonePc' = "sys_run"
    /\ UNCHANGED <<options, fs, fs0, network_progress, callbacks_fired, submodules_left,
                   lg_error, clone_started, system_git_runs, clone_result>>
    /\ UNCHANGED notCloneVars

\* lines 411-425: run git clone; on success emit Completed.
SysRun ==
    /\ clonePc = "sys_run"
    /\ \/ /\ CloneReturn(ErrResult(SimpleErr("system_git_not_found")))
          /\ UNCHANGED <<events, fs>>
       \/ /\ CloneReturn(ErrResult(SimpleErr("system_git_failed")))
          /\ UNCHANGED <<events, fs>>
       \/ /\ fs.dest \in {"absent", "empty"}
          /\ fs' = [fs EXCEPT !.dest = "repo"]
          /\ emit_progress(SystemId, "Completed", 100)
          /\ clonePc' = "sys_finish"
          /\ UNCHANGED clone_result
    /\ UNCHANGED <<options, fs0, network_progress, callbacks_fired, submodules_left,
                   lg_error, clone_started, system_git_runs>>
    /\ UNCHANGED notCloneVars

\* lines 427-439: open the repository, read info and statistics, return Ok.
SysFinish ==
    /\ clonePc = "sys_finish"
    /\ \/ \E e \in InfoFailures : CloneReturn(ErrResult(GitErr(e)))
       \/ CloneReturn(OkResult(SystemId))
    /\ UNCHANGED <<options, fs, fs0, events, network_progress, callbacks_fired,
                   submodules_left, lg_error, clone_started, system_git_runs>>
    /\ UNCHANGED notCloneVars

(***************************************************************************)
(* CloneManager::clone_repository_sync: what to do with the embedded       *)
(* path's result.                                                          *)
(***************************************************************************)
\* Mutation of FallsBackToSystemGit: every failure of the embedded path falls back.
FallsBackToSystemGit_AnyError(e) == TRUE

\* lines 29-34: Err(GitError::Git(e)) if self.is_ssh_hostkey_error(&e)
FallsBackToSystemGit(e) == e.type = "git" /\ is_ssh_hostkey_error(e)

CloneDispatch ==
    /\ clonePc = "lg_returned"
    /\ IF lg_error = NoError
       THEN CloneReturn(OkResult(EmbeddedId))
       ELSE IF FallsBackToSystemGit(lg_error)
       THEN clonePc' = "sys_start" /\ UNCHANGED clone_result
       ELSE CloneReturn(ErrResult(lg_error))
    /\ UNCHANGED <<options, fs, fs0, events, network_progress, callbacks_fired,
                   submodules_left, lg_error, clone_started, system_git_runs>>
    /\ UNCHANGED notCloneVars

CloneInit ==
    /\ options \in [url : Urls, directory : Directories, recursive : BOOLEAN]
    /\ fs \in { f \in [parent : BOOLEAN, dest : DestKinds] : f.dest # "absent" => f.parent }
    /\ fs0 = fs
    /\ clonePc = "start"
    /\ events = <<>>
    /\ network_progress = NoProgress
    /\ callbacks_fired = 0
    /\ submodules_left = 0
    /\ lg_error = NoError
    /\ clone_started = FALSE
    /\ system_git_runs = 0
    /\ clone_result = NoResult

CloneNext ==
    \/ LgValidate
    \/ LgCheckDir
    \/ LgConnect
    \/ LgTransferProgress
    \/ LgCloneOk
    \/ LgCloneFail
    \/ LgCheckout
    \/ LgSubmodulesBegin
    \/ LgSubmodule
    \/ LgSubmodulesDone
    \/ LgFinish
    \/ CloneDispatch
    \/ SysStart
    \/ SysConnect
    \/ SysRun
    \/ SysFinish


(***************************************************************************)
(* Claims about clone progress events.                                     *)
(***************************************************************************)
EventsOf(id) == SelectSeq(events, LAMBDA ev : ev.id = id)

\* C1 (as claimed): within one clone operation id the emitted percents never
\* decrease, and every emitted percent lies in 0..100.
C1_PercentNonDecreasingAndBounded ==
    /\ \A i, j \in 1..Len(events) :
          (i < j /\ events[i].id = events[j].id) => events[i].progress <= events[j].progress
    /\ \A i \in 1..Len(events) : events[i].progress \in 0..100

\* C2: when clone_repository_sync returns success, the last event emitted under
\* the id of the path that produced the result is Completed with percent 100.
C2_SuccessEndsWithCompleted100 ==
    (clonePc = "returned" /\ clone_result.kind = "ok") =>
        LET own == EventsOf(clone_result.id)
        IN /\ Len(own) > 0
           /\ own[Len(own)].stage = "Completed"
           /\ own[Len(own)].progress = 100

C2_Witness ==
    /\ clonePc = "returned"
    /\ clone_result = OkResult(SystemId)
    /\ Len(EventsOf(EmbeddedId)) > 0

\* C3: once Completed or Error has been emitted for an id, no further event is
\* emitted for that id.
C3_TerminalStageIsLast ==
    \A i, j \in 1..Len(events) :
        (i < j /\ events[i].id = events[j].id) => events[i].stage \notin {"Completed", "Error"}

C3_Witness ==
    /\ clonePc = "returned"
    /\ \E i \in 1..Len(events) : events[i].stage = "Error" /\ events[i].id = EmbeddedId
    /\ \E i \in 1..Len(events) : events[i].stage = "Completed" /\ events[i].id = SystemId

\* The scheme prefixes the clone accepts (spec 4.2 step 1).
C10_RecognisedUrl(url) ==
    \E p \in {P_http, P_https, P_git_at, P_ssh} : StartsWith(url, p)

\* C10: a clone with a recognised URL into an existing non-empty directory fails
\* with DirectoryExists, touches nothing at the destination, never starts the
\* embedded clone and never tries the external path; a clone with an empty or
\* unrecognised URL fails with InvalidUrl in the same way and emits no event.
C10_TerminalValidationFailures ==
    /\ (C10_RecognisedUrl(options.url) /\ options.directory # "" /\ fs0.dest = "nonempty") =>
          /\ fs = fs0
          /\ ~clone_started
          /\ system_git_runs = 0
          /\ clonePc = "returned" => clone_result = ErrResult(SimpleErr("directory_exists"))
    /\ ~C10_RecognisedUrl(options.url) =>
          /\ fs = fs0
          /\ ~clone_started
          /\ system_git_runs = 0
          /\ events = <<>>
          /\ clonePc = "returned" => clone_result = ErrResult(SimpleErr("invalid_url"))

C10_Witness ==
    /\ clonePc = "returned"
    /\ options.url = U_https
    /\ fs0.dest = "nonempty"
    /\ clone_result = ErrResult(SimpleErr("directory_exists"))

\* The embedded path failed with a library error that carries the SSH signature.
C11_SshSignatureFailure(e) ==
    /\ e.type = "git"
    /\ \/ e.msg \in {"hostkey_preference", "methods_not_supported"}
       \/ e.class = "Ssh"

\* C11: in one clone_repository_sync call the external path is entered at most
\* once, and only after the embedded path returned a library error with the SSH
\* signature; every other failure of the embedded path is returned unchanged
\* without entering the external path; once the call has returned (a failure of
\* the external path included) the external path is not entered again.
C11_ExternalPathOnlyAfterSshSignature ==
    /\ system_git_runs <= 1
    /\ system_git_runs = 1 => C11_SshSignatureFailure(lg_error)
    /\ clonePc \in {"sys_start", "sys_connect", "sys_run", "sys_finish"} =>
          C11_SshSignatureFailure(lg_error)
    /\ (clonePc = "returned" /\ lg_error # NoError /\ ~C11_SshSignatureFailure(lg_error)) =>
          /\ system_git_runs = 0
          /\ clone_result = ErrResult(lg_error)
    /\ (clonePc = "returned" /\ C11_SshSignatureFailure(lg_error)) => system_git_runs = 1

\* The external path ran after an SSH-class failure and failed itself.
C11_Witness ==
    /\ clonePc = "returned"
    /\ lg_error = GitErr([class |-> "Ssh", msg |-> "auth_failed"])
    /\ system_git_runs = 1
    /\ clone_result = ErrResult(SimpleErr("system_git_failed"))

\* The embedded clone has failed and clone_repository_sync has returned.
C29_EmbeddedCloneFailed == clonePc = "returned" /\ lg_error # NoError

\* The failure as the claim words it: the text contains "hostkey" or
\* "method(s) are not currently supported", or the error is of class SSH.
C29_ClaimedSignature(e) ==
    /\ e.type = "git"
    /\ \/ ErrorContains(e, "hostkey")
       \/ ErrorContains(e, "method(s) are not currently supported")
       \/ e.class = "Ssh"

\* The failure the code tests for: the text contains "hostkey preference" or
\* "The requested method(s) are not currently supported", or names the class
\* SSH.
C29_TestedSignature(e) ==
    /\ e.type = "git"
    /\ \/ ErrorContains(e, "hostkey preference")
       \/ ErrorContains(e, "The requested method(s) are not currently supported")
       \/ e.class = "Ssh"

\* C29 (as claimed): every failure of the embedded clone whose text contains
\* "hostkey" or "method(s) are not currently supported", or that is of class
\* SSH, makes the whole clone run again through the external path; every
\* other failure is returned without a retry.
C29_HostkeyFailuresRetriedExternally ==
    C29_EmbeddedCloneFailed =>
        /\ C29_ClaimedSignature(lg_error) => system_git_runs = 1
        /\ ~C29_ClaimedSignature(lg_error) =>
              /\ system_git_runs = 0
              /\ clone_result = ErrResult(lg_error)

\* C29 (amended): the retry follows the failures whose text contains
\* "hostkey preference" or "The requested method(s) are not currently
\* supported" or that are of class SSH; every other failure, one that only
\* mentions "hostkey" included, is returned without a retry.
C29_HostkeyPreferenceFailuresRetriedExternally ==
    C29_EmbeddedCloneFailed =>
        /\ C29_TestedSignature(lg_error) => system_git_runs = 1
        /\ ~C29_TestedSignature(lg_error) =>
              /\ system_git_runs = 0
              /\ clone_result = ErrResult(lg_error)

\* A failure that mentions "hostkey" without the tested phrase was returned
\* without a retry.
C29_Witness ==
    /\ clonePc = "returned"
    /\ lg_error = GitErr([class |-> "Net", msg |-> "resolve_hostkey_host"])
    /\ system_git_runs = 0
    /\ clone_result = ErrResult(lg_error)

\* A failure with the tested phrase was retried through the external path.
C29_WitnessRetried ==
    /\ clonePc = "returned"
    /\ lg_error = GitErr([class |-> "Ssh", msg |-> "hostkey_preference"])
    /\ system_git_runs = 1

\* The stage was emitted under the id.
C35_Emitted(id, stage) ==
    \E i \in 1..Len(events) : events[i].id = id /\ events[i].stage = stage

\* C35 (as claimed): Completed is emitted under a clone operation id only if the
\* call that owns the id returns success, on the embedded path and on the
\* external path.
C35_CompletedOnlyOnSuccess ==
    clonePc = "returned" =>
        /\ C35_Emitted(EmbeddedId, "Completed") => lg_error = NoError
        /\ C35_Emitted(SystemId, "Completed") => clone_result = OkResult(SystemId)

\* What holds in the code: the embedded path emits Completed only when it
\* returns success; the external path emits it as soon as git clone exits with
\* success, before the repository is opened and read.
C35_EmbeddedCompletedOnlyOnSuccess ==
    /\ clonePc \in {"lg_returned", "sys_start", "sys_connect", "sys_run", "sys_finish", "returned"}
          => (C35_Emitted(EmbeddedId, "Completed") => lg_error = NoError)
    /\ (clonePc = "returned" /\ C35_Emitted(SystemId, "Completed")
           /\ clone_result # OkResult(SystemId))
          => \E e \in InfoFailures : clone_result = ErrResult(GitErr(e))

\* The call that owns the id has returned, and with success.
C36_Returned(id) ==
    IF id = EmbeddedId
    THEN clonePc \in {"lg_returned", "sys_start", "sys_connect", "sys_run", "sys_finish", "returned"}
    ELSE clonePc = "returned" /\ system_git_runs > 0
C36_Succeeded(id) ==
    IF id = EmbeddedId THEN lg_error = NoError ELSE clone_result = OkResult(SystemId)

\* C36 (as claimed): for every clone operation id with an Initializing event, a
\* terminal event is emitted under that id before the call returns: Completed
\* when the call succeeds and Error when it fails.
C36_TerminalEventBeforeReturn ==
    \A id \in {EmbeddedId, SystemId} :
        (C36_Returned(id) /\ C35_Emitted(id, "Initializing")) =>
            IF C36_Succeeded(id)
            THEN C35_Emitted(id, "Completed")
            ELSE C35_Emitted(id, "Error")

\* What holds in the code: a successful call has emitted Completed; Error is
\* emitted by the embedded path alone, and only when builder.clone failed.
C36_ErrorOnlyWhenTransferFails ==
    /\ \A id \in {EmbeddedId, SystemId} :
          (C36_Returned(id) /\ C36_Succeeded(id)) => C35_Emitted(id, "Completed")
    /\ ~C35_Emitted(SystemId, "Error")
    /\ C35_Emitted(EmbeddedId, "Error") =>
          /\ clone_started
          /\ lg_error.type = "git"
          /\ ~C35_Emitted(EmbeddedId, "CheckingOut")

\* The external path has been started.
C37_ExternalStarted ==
    clonePc \in {"sys_start", "sys_connect", "sys_run", "sys_finish"} \/ system_git_runs > 0

\* builder.clone of the embedded attempt succeeded and filled the destination.
C37_EmbeddedFilledDestination == C35_Emitted(EmbeddedId, "CheckingOut")

\* C37 (as claimed): the external path is started only when the embedded attempt
\* failed in its transfer step; a failure after the embedded clone succeeded
\* never starts it, so it never runs against a destination the embedded attempt
\* filled.
C37_ExternalOnlyAfterTransferFailure ==
    C37_ExternalStarted => ~C37_EmbeddedFilledDestination

\* What holds in the code: after the embedded clone succeeded, only a failure
\* of clone_submodules with the SSH signature starts the external path, and the
\* external clone then fails at the filled destination.
C37_ExternalAfterSubmoduleFailureOnly ==
    (C37_ExternalStarted /\ C37_EmbeddedFilledDestination) =>
        /\ options.recursive
        /\ \E i \in 1..Len(events) :
              events[i] = Event(EmbeddedId, "CheckingOut", 85)
        /\ C11_SshSignatureFailure(lg_error)
        /\ fs.dest = "repo"
        /\ ~C35_Emitted(EmbeddedId, "Completed")
        /\ clonePc = "returned" =>
              clone_result \in { ErrResult(SimpleErr("system_git_not_found")),
                                 ErrResult(SimpleErr("system_git_failed")) }

(***************************************************************************)
(* Credentials.  The transport (git2) invokes the credentials callback     *)
(* each time the server demands authentication; a callback that returns    *)
(* Ok(cred) hands cred to the transport, which presents it to the server.  *)
(***************************************************************************)
CredentialTypes == {"USER_PASS_PLAINTEXT", "SSH_KEY", "DEFAULT", "USERNAME"}

\* allowed_types as the transports pass it
AllowedTypeSets ==
    { {"USER_PASS_PLAINTEXT"}, {"SSH_KEY"}, {"USER_PASS_PLAINTEXT", "DEFAULT"}, {"USERNAME"} }

None == "<none>"

\* What the HTTP transport and the SSH transport ask for.
AllowedTypesOf(url) ==
    IF StartsWith(url, P_https) \/ StartsWith(url, P_http)
      THEN { {"USER_PASS_PLAINTEXT"}, {"USER_PASS_PLAINTEXT", "DEFAULT"} }
      ELSE { {"SSH_KEY"}, {"USERNAME"} }

AuthConfigs ==
    { [auth_type |-> "None", username |-> None, password |-> None, token |-> None,
       ssh_key_path |-> None],
      [auth_type |-> "Password", username |-> "user", password |-> "pw", token |-> None,
       ssh_key_path |-> None],
      [auth_type |-> "Password", username |-> None, password |-> None, token |-> None,
       ssh_key_path |-> None],
      [auth_type |-> "Token", username |-> None, password |-> None, token |-> "tok",
       ssh_key_path |-> None],
      [auth_type |-> "Token", username |-> None, password |-> None, token |-> None,
       ssh_key_path |-> None],
      [auth_type |-> "Ssh", username |-> None, password |-> None, token |-> None,
       ssh_key_path |-> "key"],
      [auth_type |-> "Ssh", username |-> None, password |-> None, token |-> None,
       ssh_key_path |-> None] }

OrElse(a, b) == IF a # None THEN a ELSE b

CredOk(c) == [ok |-> TRUE, cred |-> c]
CredErr(e) == [ok |-> FALSE, error |-> e]

CredDefault == [credtype |-> "DEFAULT", username |-> None, secret |-> None]
CredUserPass(u, p) == [credtype |-> "USER_PASS_PLAINTEXT", username |-> u, secret |-> p]
CredSshKey(u, key) == [credtype |-> "SSH_KEY", username |-> u, secret |-> key]

\* AuthManager::create_credentials
create_credentials(auth, username_from_url, allowed_types) ==
    CASE auth.auth_type = "None" ->
            IF "DEFAULT" \in allowed_types THEN CredOk(CredDefault)
            ELSE CredErr(SimpleErr("authentication"))
      [] auth.auth_type = "Password" ->
            IF "USER_PASS_PLAINTEXT" \notin allowed_types
            THEN CredErr(SimpleErr("authentication"))
            ELSE IF OrElse(auth.username, username_from_url) = None
            THEN CredErr(SimpleErr("authentication"))
            ELSE IF auth.password = None THEN CredErr(SimpleErr("authentication"))
            ELSE CredOk(CredUserPass(OrElse(auth.username, username_from_url), auth.password))
      [] auth.auth_type = "Token" ->
            IF "USER_PASS_PLAINTEXT" \notin allowed_types
            THEN CredErr(SimpleErr("authentication"))
            ELSE IF auth.token = None THEN CredErr(SimpleErr("authentication"))
            ELSE CredOk(CredUserPass(OrElse(OrElse(auth.username, username_from_url), "token"),
                                     auth.token))
      [] auth.auth_type = "Ssh" ->
            IF "SSH_KEY" \notin allowed_types THEN CredErr(SimpleErr("authentication"))
            ELSE IF auth.ssh_key_path # None
            THEN CredOk(CredSshKey(OrElse(OrElse(auth.username, username_from_url), "git"),
                                   auth.ssh_key_path))
            ELSE CredOk(CredSshKey(OrElse(OrElse(auth.username, username_from_url), "git"),
                                   "agent"))

\* The credentials callback of clone_with_libgit2 (clone.rs lines 78-98): every
\* invocation answers with create_credentials; an error becomes a git2 error.
CloneCredentialsCallback(call) ==
    LET r == create_credentials(call.auth, call.username_from_url, call.allowed_types)
    IN IF r.ok THEN r ELSE CredErr(GitErr([class |-> "None", msg |-> "callback_error"]))

\* The credentials callback of fetch_remote and push_remote (operations.rs 339-343,
\* 440-443): every invocation answers Cred::default().
PlainCredentialsCallback(call) == CredOk(CredDefault)

IsHttpUrl(url) == StartsWith(url, P_https) \/ StartsWith(url, P_http)

\* A callback that keeps no count: it answers every invocation as its first.
TokenCredentialsCallback_FirstAnswerAgain(call, attempts) ==
    IF IsHttpUrl(call.url) /\ call.token # None
    THEN CredOk(CredUserPass(call.token, ""))
    ELSE CredOk(CredDefault)

\* The credentials callback of create_authenticated_callbacks (operations.rs
\* 923-974), given the value of the counter after its increment.
TokenCredentialsCallback(call, attempts) ==
    IF attempts > 3
    THEN CredErr(GitErr([class |-> "None", msg |-> "too_many_attempts"]))
    ELSE IF IsHttpUrl(call.url) /\ call.token # None /\ attempts = 1
    THEN CredOk(CredUserPass(call.token, ""))
    ELSE IF IsHttpUrl(call.url) /\ call.token # None /\ attempts = 2
    THEN CredOk(CredUserPass(OrElse(call.username_from_url, "git"), call.token))
    ELSE IF attempts = 1
    THEN CredOk(CredDefault)
    ELSE CredErr(GitErr([class |-> "None", msg |-> "auth_failed_no_more"]))

AuthOps == {"clone", "fetch", "push", "fetch_token", "push_token"}

CallbackAnswer(call, attempts) ==
    CASE call.op = "clone" -> CloneCredentialsCallback(call)
      [] call.op \in {"fetch", "push"} -> PlainCredentialsCallback(call)
      [] OTHER -> TokenCredentialsCallback(call, attempts)

AuthEnd(pc, e) ==
    /\ authPc' = pc
    /\ auth_error' = e

\* The transport invokes the credentials callback.
CredentialsCallback ==
    /\ authPc = "need"
    /\ auth_call.has_callback
    /\ auth_attempts' = IF auth_call.op \in {"fetch_token", "push_token"}
                        THEN auth_attempts + 1 ELSE auth_attempts
    /\ LET r == CallbackAnswer(auth_call, auth_attempts')
       IN IF r.ok
          THEN /\ creds_handed' = Append(creds_handed, r.cred)
               /\ authPc' = "sent"
               /\ UNCHANGED auth_error
          ELSE /\ AuthEnd("failed", r.error)
               /\ UNCHANGED creds_handed
    /\ UNCHANGED <<auth_call, server_rejects>>
    /\ UNCHANGED notAuthVars

\* clone_with_libgit2 registers no callback when options.auth is None: the
\* transport fails the request for credentials.
NoCallback ==
    /\ authPc = "need"
    /\ ~auth_call.has_callback
    /\ AuthEnd("failed", GitErr([class |-> "Http", msg |-> "auth_required"]))
    /\ UNCHANGED <<auth_call, auth_attempts, creds_handed, server_rejects>>
    /\ UNCHANGED notAuthVars

LastCred == creds_handed[Len(creds_handed)]

\* The transport refuses a credential of a type it did not ask for.
TransportRefusesType ==
    /\ authPc = "sent"
    /\ LastCred.credtype \notin auth_call.allowed_types
    /\ AuthEnd("failed", GitErr([class |-> "Net", msg |-> "invalid_cred_type"]))
    /\ UNCHANGED <<auth_call, auth_attempts, creds_handed, server_rejects>>
    /\ UNCHANGED notAuthVars

\* The server accepts the credential.
ServerAccepts ==
    /\ authPc = "sent"
    /\ LastCred.credtype \in auth_call.allowed_types
    /\ auth_call.server_accepts
    /\ AuthEnd("success", NoError)
    /\ UNCHANGED <<auth_call, auth_attempts, creds_handed, server_rejects>>
    /\ UNCHANGED notAuthVars

\* The server rejects the credential and the transport asks again.
ServerRejects ==
    /\ authPc = "sent"
    /\ LastCred.credtype \in auth_call.allowed_types
    /\ server_rejects < MaxRejects
    /\ server_rejects' = server_rejects + 1
    /\ authPc' = "need"
    /\ UNCHANGED <<auth_call, auth_attempts, creds_handed, auth_error>>
    /\ UNCHANGED notAuthVars

AuthInit ==
    /\ auth_call \in
         { c \in [op : AuthOps, url : {U_https, U_git_at, U_ssh}, auth : AuthConfigs,
                  token : {None, "tok"}, username_from_url : {None, "git"},
                  allowed_types : AllowedTypeSets, has_callback : BOOLEAN,
                  server_accepts : BOOLEAN] :
             \* only the clone callback reads options.auth; only it can be missing
             /\ (c.op # "clone" => c.auth = CHOOSE a \in AuthConfigs : a.auth_type = "None")
             /\ (c.op # "clone" => c.has_callback)
             \* only the token-aware operations carry a token
             /\ (c.op \notin {"fetch_token", "push_token"} => c.token = None)
             \* the transport of the URL decides what it asks for
             /\ c.allowed_types \in AllowedTypesOf(c.url) }
    /\ authPc = "need"
    /\ auth_attempts = 0
    /\ creds_handed = <<>>
    /\ server_rejects = 0
    /\ auth_error = NoError

AuthNext ==
    \/ CredentialsCallback
    \/ NoCallback
    \/ TransportRefusesType
    \/ ServerAccepts
    \/ ServerRejects

\* C4 (as claimed): during one operation the credentials callback hands
\* credentials to the transport at most 3 times.
C4_AtMostThreeCredentials == Len(creds_handed) <= 3

\* What does hold: the token-aware callback hands out at most two credentials.
C4_TokenCallbackBounded ==
    auth_call.op \in {"fetch_token", "push_token"} => Len(creds_handed) <= 2

\* A token-authenticated fetch or push has ended in failure against a server
\* that accepts no credential and has rejected at least one.
C14_TokenOperationRejected ==
    /\ auth_call.op \in {"fetch_token", "push_token"}
    /\ ~auth_call.server_accepts
    /\ server_rejects > 0
    /\ authPc = "failed"

\* C14 (as claimed): a token-authenticated fetch or push against a server that
\* rejects every credential ends after a bounded number of callback
\* invocations, and the error returned to the caller has kind
\* AuthenticationFailed.
C14_RejectedTokenOperationFailsAsAuthentication ==
    /\ auth_call.op \in {"fetch_token", "push_token"} => auth_attempts <= 3
    /\ C14_TokenOperationRejected => auth_error.type = "authentication"

\* What does hold: the callback is invoked at most three times, the operation
\* cannot succeed, and the error returned is the library's (kind git).
C14_RejectedTokenOperationFailsAsGit ==
    /\ auth_call.op \in {"fetch_token", "push_token"} => auth_attempts <= 3
    /\ (auth_call.op \in {"fetch_token", "push_token"} /\ ~auth_call.server_accepts) =>
          authPc # "success"
    /\ C14_TokenOperationRejected => auth_error.type = "git"

\* A token-aware fetch or push whose callback has been invoked n times or more.
C25_Invoked(n) ==
    /\ auth_call.op \in {"fetch_token", "push_token"}
    /\ auth_attempts >= n

C25_HasHttpToken == IsHttpUrl(auth_call.url) /\ auth_call.token # None

\* The callback's last invocation was rejected: it ended the operation with
\* the callback's own error and handed nothing to the transport.
C25_Rejected(n) ==
    /\ auth_attempts = n
    /\ Len(creds_handed) < n
    /\ authPc = "failed"
    /\ auth_error.type = "git"
    /\ auth_error.msg \in {"auth_failed_no_more", "too_many_attempts"}

\* C25: with a token for an HTTP(S) remote the token-aware callback answers
\* its first invocation with (token, ""), its second with (user name of the
\* URL or "git", token) and rejects the third; without a token it supplies
\* default credentials once and rejects the next invocation.  A rejection
\* ends the operation, so there is no later invocation, and the counter
\* equals the number of invocations of this call.
C25_TokenCallbackAnswers ==
    auth_call.op \in {"fetch_token", "push_token"} =>
      /\ auth_attempts \in 0..3
      /\ auth_attempts = 0 => creds_handed = <<>>
      /\ (C25_HasHttpToken /\ auth_attempts >= 1) =>
            /\ Len(creds_handed) >= 1
            /\ creds_handed[1] = CredUserPass(auth_call.token, "")
      /\ (C25_HasHttpToken /\ auth_attempts >= 2) =>
            /\ Len(creds_handed) = 2
            /\ creds_handed[2] =
                 CredUserPass(OrElse(auth_call.username_from_url, "git"), auth_call.token)
      /\ (C25_HasHttpToken /\ auth_attempts >= 3) => C25_Rejected(3)
      /\ (auth_call.token = None /\ auth_attempts >= 1) =>
            /\ Len(creds_handed) = 1
            /\ creds_handed[1] = CredDefault
      /\ (auth_call.token = None /\ auth_attempts >= 2) => C25_Rejected(2)

\* The third invocation of a call with a token has been rejected after the
\* server refused both credentials.
C25_ThirdInvocationRejected ==
    /\ C25_Invoked(3)
    /\ C25_HasHttpToken
    /\ server_rejects = 2
    /\ authPc = "failed"

(***************************************************************************)
(* The repository.  A tree maps each path to its content, Absent when the  *)
(* tree has no entry for the path.  Contents are atoms: two different      *)
(* contents of one path are edits that do not merge.                       *)
(***************************************************************************)
Files == {"f", "g"}
Absent == "-"
Contents == {"a", "b"}
LocalEdit == "z"           \* an uncommitted edit of the user
ConflictMarkers == "<<<"   \* a file written with conflict markers

Trees == [Files -> Contents \cup {Absent}]
BaseTree == [p \in Files |-> IF p = "f" THEN "a" ELSE Absent]
EmptyTree == [p \in Files |-> Absent]

Commit(parents, tree) == [parents |-> parents, tree |-> tree]

Range(sq) == { sq[i] : i \in 1..Len(sq) }

\* The commits reachable from c (c included).  A parent's id is smaller than
\* its child's: commits are appended to the database.
RECURSIVE Ancestors(_, _)
Ancestors(cs, c) ==
    {c} \cup UNION { Ancestors(cs, p) : p \in Range(cs[c].parents) }

IsDescendant(cs, d, a) == a \in Ancestors(cs, d)

\* Repository::graph_ahead_behind(local, upstream)
graph_ahead_behind(cs, local, up) ==
    [ahead |-> Cardinality(Ancestors(cs, local) \ Ancestors(cs, up)),
     behind |-> Cardinality(Ancestors(cs, up) \ Ancestors(cs, local))]

\* Repository::merge_base(a, b): 0 when the two commits have no common ancestor.
merge_base(cs, a, b) ==
    LET common == Ancestors(cs, a) \cap Ancestors(cs, b)
    IN IF common = {} THEN 0
       ELSE CHOOSE m \in common : \A o \in common : o \in Ancestors(cs, m)

TreeOf(cs, c) == IF c = 0 THEN EmptyTree ELSE cs[c].tree

\* A reference exists: refs map a name to a commit id, 0 when there is no such
\* reference.
HasRef(refs, name) == name \in DOMAIN refs /\ refs[name] # 0

\* The commit HEAD resolves to.
HeadCommit(h, br) == IF h.kind = "branch" THEN br[h.name] ELSE h.oid

\* head.shorthand(): the branch name, or "HEAD" when detached.
Shorthand(h) == IF h.kind = "branch" THEN h.name ELSE "HEAD"

OnBranch(name) == [kind |-> "branch", name |-> name]
Detached(oid) == [kind |-> "detached", oid |-> oid]

CleanIndex(tree) == [tree |-> tree, conflicts |-> {}, ours |-> EmptyTree]

NoRebase == [active |-> FALSE]

(***************************************************************************)
(* Three-way merge of trees (Repository::merge_trees): the result index.   *)
(***************************************************************************)
MergeConflicts(anc, ours, theirs) ==
    { p \in Files : ours[p] # theirs[p] /\ ours[p] # anc[p] /\ theirs[p] # anc[p] }

\* A merge that keeps our side of every path.
merge_trees_KeepsOurs(anc, ours, theirs) ==
    [tree |-> ours, conflicts |-> MergeConflicts(anc, ours, theirs),
     ours |-> [p \in Files |-> IF p \in MergeConflicts(anc, ours, theirs)
                                THEN ours[p] ELSE Absent]]

merge_trees(anc, ours, theirs) ==
    LET cf == MergeConflicts(anc, ours, theirs)
    IN [tree |-> [p \in Files |->
                    IF ours[p] = theirs[p] THEN ours[p]
                    ELSE IF ours[p] = anc[p] THEN theirs[p]
                    ELSE IF theirs[p] = anc[p] THEN ours[p]
                    ELSE ours[p]],
        conflicts |-> cf,
        ours |-> [p \in Files |-> IF p \in cf THEN ours[p] ELSE Absent]]

\* index.has_conflicts()
has_conflicts(idx) == idx.conflicts # {}

\* The paths collected from index.conflicts(): those of the conflicts whose
\* "our" side has an entry (operations.rs 752-762, 853-863).
ConflictFilesOf(idx) == { p \in idx.conflicts : idx.ours[p] # Absent }

(***************************************************************************)
(* Checkout (git2 checkout_tree / checkout_head / reset --hard).           *)
(***************************************************************************)
\* The paths a safe checkout from baseline to target cannot update: the target
\* changes them and the working tree no longer holds the baseline's content.
CheckoutConflicts(baseline, target, wt) ==
    { p \in Files : baseline[p] # target[p] /\ wt[p] # baseline[p] /\ wt[p] # target[p] }

\* A safe checkout that succeeds: paths the target changes are updated; with
\* recreate_missing, unchanged paths missing from the working tree are rewritten.
SafeCheckoutWorktree(baseline, target, wt, recreate_missing) ==
    [p \in Files |->
        IF baseline[p] # target[p] THEN target[p]
        ELSE IF recreate_missing /\ target[p] # Absent /\ wt[p] = Absent THEN target[p]
        ELSE wt[p]]

SafeCheckoutIndex(baseline, target, idx, wt, recreate_missing) ==
    [idx EXCEPT !.tree =
        [p \in Files |->
            IF baseline[p] # target[p] THEN target[p]
            ELSE IF recreate_missing /\ target[p] # Absent /\ wt[p] = Absent THEN target[p]
            ELSE idx.tree[p]]]

\* A forced checkout: every tracked path is made to match the target; a path
\* neither in the target nor in the index (untracked) is left alone.
ForceCheckoutWorktree(target, idx, wt) ==
    [p \in Files |->
        IF target[p] # Absent THEN target[p]
        ELSE IF idx.tree[p] # Absent \/ p \in idx.conflicts THEN Absent
        ELSE wt[p]]

(***************************************************************************)
(* Status (get_repository_status).                                         *)
(***************************************************************************)
\* is_staged: the index entry differs from HEAD's tree
IsStaged(headTree, idx, p) == p \notin idx.conflicts /\ idx.tree[p] # headTree[p]

\* has_unstaged_changes: the working tree differs from the index (modified,
\* deleted, or new and untracked)
IsUnstaged(idx, wt, p) == p \notin idx.conflicts /\ wt[p] # idx.tree[p]

\* status.files: one entry per path and side
StatusFiles(headTree, idx, wt) ==
    { [path |-> p, staged |-> TRUE] : p \in { q \in Files : IsStaged(headTree, idx, q) } }
    \cup
    { [path |-> p, staged |-> FALSE] : p \in { q \in Files : IsUnstaged(idx, wt, q) } }

\* Repository::branch_upstream_name: the configured upstream, which need not exist.
UpstreamOf(up, name) == IF name \in DOMAIN up THEN up[name] ELSE None

\* get_ahead_behind_count: (0, 0) without a branch or an upstream; an error
\* when the upstream reference is missing.
get_ahead_behind_count(cs, h, br, up, tr) ==
    IF h.kind # "branch" \/ ~HasRef(br, h.name) THEN [ok |-> TRUE, ahead |-> 0, behind |-> 0]
    ELSE IF UpstreamOf(up, h.name) = None THEN [ok |-> TRUE, ahead |-> 0, behind |-> 0]
    ELSE IF ~HasRef(tr, UpstreamOf(up, h.name)) THEN [ok |-> FALSE]
    ELSE LET ab == graph_ahead_behind(cs, br[h.name], tr[UpstreamOf(up, h.name)])
         IN [ok |-> TRUE, ahead |-> ab.ahead, behind |-> ab.behind]

(***************************************************************************)
(* Sync operations (fetch, pull, push).  An operation runs alone on the    *)
(* repository; sync_result is what the command returns to the frontend.    *)
(***************************************************************************)
Main == "main"
OriginMain == "origin/main"

SyncResult(success, message, conflicts, conflict_files, ahead, behind) ==
    [kind |-> "ok",
     value |-> [success |-> success, message |-> message, has_conflicts |-> conflicts,
                conflict_files |-> conflict_files, ahead |-> ahead, behind |-> behind]]

\* The messages of the results, by the line that builds them (operations.rs;
\* the last two commands/git.rs).
Msg ==
    [fetched |-> "fetched",                      \* 360
     already_up_to_date |-> "already up to date", \* 401
     pushed |-> "pushed",                         \* 464
     fast_forward |-> "fast-forward merged",      \* 734
     merge_conflict |-> "merge conflict",         \* 766
     merged |-> "merged",                         \* 796
     nothing_to_merge |-> "nothing to merge",     \* 805
     rebase_conflict |-> "rebase conflict",       \* 867
     rebased |-> "rebased",                       \* 892
     system_pulled |-> "pulled by system git",    \* 1273
     system_conflict |-> "conflict on pull"]      \* 1289

SyncErr(message) == [kind |-> "err", error |-> message]

Snapshot == [head |-> head, branches |-> branches, index |-> index, worktree |-> worktree,
             ncommits |-> Len(commits), rebase |-> rebase, merge_head |-> merge_head,
             tracking |-> tracking, remote_tip |-> remote_tip, upstream |-> upstream]

NoSnapshot == [head |-> "none"]

SyncReturn(r) ==
    /\ sync_result' = r
    /\ syncPc' = "done"

Strategies == {"merge", "rebase"}

\* The command is invoked: fetch_remote, pull_remote(strategy), push_remote(force).
StartFetch ==
    /\ syncPc = "idle"
    /\ sync_op' = [op |-> "fetch"]
    /\ syncPc' = "fetch"
    /\ pre' = [start |-> Snapshot, fetched |-> NoSnapshot]
    /\ UNCHANGED <<repoVars, sync_result, notSyncVars>>

StartPull ==
    /\ syncPc = "idle"
    /\ \E strategy \in Strategies : sync_op' = [op |-> "pull", strategy |-> strategy]
    /\ syncPc' = "fetch"
    /\ pre' = [start |-> Snapshot, fetched |-> NoSnapshot]
    /\ UNCHANGED <<repoVars, sync_result, notSyncVars>>

StartPush ==
    /\ syncPc = "idle"
    /\ \E force \in BOOLEAN : sync_op' = [op |-> "push", force |-> force]
    /\ syncPc' = "push"
    /\ pre' = [start |-> Snapshot, fetched |-> NoSnapshot]
    /\ UNCHANGED <<repoVars, sync_result, notSyncVars>>

\* The errors remote.fetch and remote.push can end with.
TransportFailures ==
    { e \in Git2Errors : e.msg \in {"hostkey_preference", "connect_failed", "auth_required"} }

\* Err(GitError::Git(e)): the library's error is returned as it is.
SyncGitErr(e) == [kind |-> "err", error |-> "git", git |-> GitErr(e)]

\* remote.fetch fails (network, authentication): Err(GitError::Git(e))
\* (operations.rs 367, 1255-1258); pull_remote passes it on (line 376).
FetchFails ==
    /\ syncPc = "fetch"
    /\ \E e \in TransportFailures : SyncReturn(SyncGitErr(e))
    /\ UNCHANGED <<repoVars, sync_op, pre, notSyncVars>>

\* The tracking branches after a fetch.  A branch the remote no longer has
\* keeps its tracking branch (no pruning).
FetchedTracking == IF remote_tip = 0 THEN tracking ELSE (OriginMain :> remote_tip) @@ tracking

\* fetch_remote succeeds: the tracking branch follows the remote; the result
\* carries the ahead/behind counts.  pull_remote goes on after it.
FetchRemote ==
    /\ syncPc = "fetch"
    /\ tracking' = FetchedTracking
    /\ pre' = [pre EXCEPT !.fetched = [Snapshot EXCEPT !.tracking = tracking']]
    /\ LET ab == get_ahead_behind_count(commits, head, branches, upstream, tracking')
       IN IF ~ab.ok
            THEN SyncReturn(SyncErr("upstream reference not found"))
          ELSE IF sync_op.op = "fetch"
            THEN SyncReturn(SyncResult(TRUE, Msg.fetched, FALSE, {}, ab.ahead, ab.behind))
          ELSE /\ syncPc' = "pull"
               /\ UNCHANGED sync_result
    /\ UNCHANGED <<commits, branches, upstream, remote_tip, head, index, worktree, rebase,
                   merge_head, sync_op, notSyncVars>>

\* pull_remote after the fetch (operations.rs 381-413): resolve HEAD and its
\* upstream, return early when they are the same commit, else merge or rebase.
PullResolve ==
    /\ syncPc = "pull"
    /\ LET branch_name == Shorthand(head)
       IN IF UpstreamOf(upstream, branch_name) = None
            THEN SyncReturn(SyncErr("branch has no upstream"))
          ELSE IF ~HasRef(tracking, UpstreamOf(upstream, branch_name))
            THEN SyncReturn(SyncErr("reference not found"))
          ELSE IF HeadCommit(head, branches) = tracking[UpstreamOf(upstream, branch_name)]
            THEN SyncReturn(SyncResult(TRUE, Msg.already_up_to_date, FALSE, {}, 0, 0))
          ELSE /\ syncPc' = sync_op.strategy
               /\ UNCHANGED sync_result
    /\ UNCHANGED <<repoVars, sync_op, pre, notSyncVars>>

\* Mutation of merge_analysis: a fast-forward is reported whenever the two
\* commits have a common ancestor.
merge_analysis_AlwaysFastForward(cs, local, up) ==
    IF merge_base(cs, local, up) # 0 THEN {"fast_forward", "normal"} ELSE {"normal"}

\* Repository::merge_analysis of the upstream commit against HEAD.
merge_analysis(cs, local, up) ==
    LET base == merge_base(cs, local, up)
    IN IF base # 0 /\ base = up THEN {"up_to_date"}
       ELSE IF base # 0 /\ base = local THEN {"fast_forward", "normal"}
       ELSE {"normal"}

UpstreamCommit == tracking[UpstreamOf(upstream, Shorthand(head))]

\* The fast-forward branch of perform_merge (operations.rs 714-739).
MergeFastForward(local, up) ==
    LET refname == Shorthand(head)
    IN IF ~HasRef(branches, refname)
         THEN /\ SyncReturn(SyncErr("reference not found"))
              /\ UNCHANGED <<commits, branches, index, worktree>>
       ELSE /\ branches' = [branches EXCEPT ![refname] = up]
            /\ worktree' = ForceCheckoutWorktree(TreeOf(commits, up), index, worktree)
            /\ index' = CleanIndex(TreeOf(commits, up))
            /\ SyncReturn(SyncResult(TRUE, Msg.fast_forward, FALSE, {}, 0, 0))
            /\ UNCHANGED commits

\* Mutation of MergeNormal: the merge commit is created from the merged index
\* even when it holds conflicts.
MergeNormal_CommitsConflicts(local, up, base) ==
    LET merged == merge_trees(TreeOf(commits, base), TreeOf(commits, local), TreeOf(commits, up))
    IN /\ commits' = Append(commits, Commit(<<local, up>>, merged.tree))
       /\ branches' = [branches EXCEPT ![Shorthand(head)] = Len(commits) + 1]
       /\ SyncReturn(SyncResult(~has_conflicts(merged), Msg.merged, has_conflicts(merged),
                                ConflictFilesOf(merged), 0, 0))
       /\ UNCHANGED <<index, worktree>>

\* The normal branch of perform_merge (operations.rs 740-801): the merge is
\* computed in memory; without conflicts the merge commit is created and the
\* current branch moved to it.
MergeNormal(local, up, base) ==
    LET merged == merge_trees(TreeOf(commits, base), TreeOf(commits, local), TreeOf(commits, up))
    IN IF has_conflicts(merged)
         THEN /\ SyncReturn(SyncResult(FALSE, Msg.merge_conflict, TRUE,
                                       ConflictFilesOf(merged), 0, 0))
              /\ UNCHANGED <<commits, branches, index, worktree>>
       ELSE /\ commits' = Append(commits, Commit(<<local, up>>, merged.tree))
            /\ branches' = [branches EXCEPT ![Shorthand(head)] = Len(commits) + 1]
            /\ SyncReturn(SyncResult(TRUE, Msg.merged, FALSE, {}, 0, 0))
            /\ UNCHANGED <<index, worktree>>

perform_merge ==
    /\ syncPc = "merge"
    /\ LET local == HeadCommit(head, branches)
           up == UpstreamCommit
           base == merge_base(commits, local, up)
           analysis == merge_analysis(commits, local, up)
       IN IF base = 0
            THEN /\ SyncReturn(SyncErr("no merge base found"))
                 /\ UNCHANGED <<commits, branches, index, worktree>>
          ELSE IF "fast_forward" \in analysis THEN MergeFastForward(local, up)
          ELSE IF "normal" \in analysis THEN MergeNormal(local, up, base)
          ELSE /\ SyncReturn(SyncResult(TRUE, Msg.nothing_to_merge, FALSE, {}, 0, 0))
               /\ UNCHANGED <<commits, branches, index, worktree>>
    /\ UNCHANGED <<tracking, upstream, remote_tip, head, rebase, merge_head, sync_op, pre,
                   notSyncVars>>

(***************************************************************************)
(* perform_rebase (operations.rs 815-898) over libgit2's rebase.           *)
(***************************************************************************)
RECURSIVE SortedSeq(_)
SortedSeq(S) ==
    IF S = {} THEN <<>>
    ELSE LET m == CHOOSE x \in S : \A y \in S : x <= y
         IN <<m>> \o SortedSeq(S \ {m})

\* The commits a rebase of branch onto up replays, oldest first; merge commits
\* are left out.
RebaseOperations(cs, branch, up) ==
    SortedSeq({ c \in Ancestors(cs, branch) \ Ancestors(cs, up) : Len(cs[c].parents) <= 1 })

ParentTree(cs, c) == IF cs[c].parents = <<>> THEN EmptyTree ELSE cs[cs[c].parents[1]].tree

\* The index or the working tree holds changes to tracked paths.
TrackedChanges(headTree, idx, wt) ==
    \/ idx.conflicts # {}
    \/ idx.tree # headTree
    \/ \E p \in Files : idx.tree[p] # Absent /\ wt[p] # idx.tree[p]

\* The working tree after an index with conflicts has been checked out.
MergedWorktree(merged, headTree, wt) ==
    [p \in Files |->
        IF p \in merged.conflicts THEN ConflictMarkers
        ELSE IF merged.tree[p] # headTree[p] THEN merged.tree[p]
        ELSE wt[p]]

\* Rebase::abort: HEAD is put back (as a branch name, or as a commit id when
\* the rebase was started from a commit id), the index and the working tree
\* are reset hard to the original commit, the rebase state is removed.
RebaseAbort(idx, wt) ==
    /\ head' = IF rebase.head_detached THEN Detached(rebase.orig_head_id)
               ELSE OnBranch(rebase.orig_head_name)
    /\ index' = CleanIndex(TreeOf(commits, rebase.orig_head_id))
    /\ worktree' = ForceCheckoutWorktree(TreeOf(commits, rebase.orig_head_id), idx, wt)
    /\ rebase' = NoRebase

\* repo.rebase(Some(local), Some(upstream), None, None): both annotated commits
\* are looked up by id, so the rebase records a detached original HEAD.
RebaseStart ==
    /\ syncPc = "rebase"
    /\ LET local == HeadCommit(head, branches)
           up == UpstreamCommit
           baseline == TreeOf(commits, local)
           target == TreeOf(commits, up)
       IN IF TrackedChanges(baseline, index, worktree)
               \/ CheckoutConflicts(baseline, target, worktree) # {}
            THEN /\ SyncReturn(SyncErr("uncommitted changes exist"))
                 /\ UNCHANGED <<head, index, worktree, rebase>>
          ELSE /\ rebase' = [active |-> TRUE, orig_head_id |-> local, head_detached |-> TRUE,
                             orig_head_name |-> None, onto |-> up,
                             todo |-> RebaseOperations(commits, local, up)]
               /\ worktree' = SafeCheckoutWorktree(baseline, target, worktree, FALSE)
               /\ index' = SafeCheckoutIndex(baseline, target, index, worktree, FALSE)
               /\ head' = Detached(up)
               /\ syncPc' = "rebase_next"
               /\ UNCHANGED sync_result
    /\ UNCHANGED <<commits, branches, tracking, upstream, remote_tip, merge_head, sync_op, pre,
                   notSyncVars>>

\* One turn of the loop: rebase.next() applies the next commit to the index
\* and the working tree; on conflicts the rebase is aborted and the conflict
\* list read from the index afterwards; else rebase.commit().
RebaseStep ==
    /\ syncPc = "rebase_next"
    /\ rebase.todo # <<>>
    /\ LET c == Head(rebase.todo)
           headc == HeadCommit(head, branches)
           headTree == TreeOf(commits, headc)
           merged == merge_trees(ParentTree(commits, c), headTree, TreeOf(commits, c))
           wt == MergedWorktree(merged, headTree, worktree)
       IN IF has_conflicts(merged)
            THEN /\ RebaseAbort(merged, wt)
                 /\ SyncReturn(SyncResult(FALSE, Msg.rebase_conflict, TRUE,
                                          ConflictFilesOf(index'), 0, 0))
                 /\ UNCHANGED commits
          ELSE IF merged.tree = headTree
            THEN \* rebase.commit: the patch has already been applied
                 /\ index' = merged
                 /\ worktree' = wt
                 /\ SyncReturn(SyncErr("this patch has already been applied"))
                 /\ UNCHANGED <<commits, head, rebase>>
          ELSE /\ commits' = Append(commits, Commit(<<headc>>, merged.tree))
               /\ head' = Detached(Len(commits) + 1)
               /\ index' = merged
               /\ worktree' = wt
               /\ rebase' = [rebase EXCEPT !.todo = Tail(@)]
               /\ UNCHANGED <<syncPc, sync_result>>
    /\ UNCHANGED <<branches, tracking, upstream, remote_tip, merge_head, sync_op, pre,
                   notSyncVars>>

\* rebase.next() returns an error: abort, and return the error.
RebaseStepFails ==
    /\ syncPc = "rebase_next"
    /\ rebase.todo # <<>>
    /\ RebaseAbort(index, worktree)
    /\ SyncReturn(SyncErr("rebase step failed"))
    /\ UNCHANGED <<commits, branches, tracking, upstream, remote_tip, merge_head, sync_op, pre,
                   notSyncVars>>

\* No operation is left: rebase.finish().  The rebase was started from a
\* commit id, so no branch is moved and HEAD stays where the replay left it.
RebaseFinish ==
    /\ syncPc = "rebase_next"
    /\ rebase.todo = <<>>
    /\ rebase' = NoRebase
    /\ IF rebase.head_detached
         THEN UNCHANGED <<head, branches>>
         ELSE /\ branches' = [branches EXCEPT ![rebase.orig_head_name] = HeadCommit(head, branches)]
              /\ head' = OnBranch(rebase.orig_head_name)
    /\ SyncReturn(SyncResult(TRUE, Msg.rebased, FALSE, {}, 0, 0))
    /\ UNCHANGED <<commits, tracking, upstream, remote_tip, index, worktree, merge_head,
                   sync_op, pre, notSyncVars>>

(***************************************************************************)
(* push_remote (operations.rs 417-473).                                    *)
(***************************************************************************)
PushFails ==
    /\ syncPc = "push"
    /\ \E e \in TransportFailures : SyncReturn(SyncGitErr(e))
    /\ UNCHANGED <<repoVars, sync_op, pre, notSyncVars>>

\* The remote takes the update when it is a fast-forward or forced; a refused
\* update is reported to a callback the code does not install, and push returns Ok.
RemoteAccepts(cs, tip, new, force) == force \/ tip = 0 \/ IsDescendant(cs, new, tip)

PushRemote ==
    /\ syncPc = "push"
    /\ head.kind = "branch"
    /\ LET local == HeadCommit(head, branches)
       IN IF RemoteAccepts(commits, remote_tip, local, sync_op.force)
            THEN /\ remote_tip' = local
                 /\ tracking' = IF head.name = Main
                                  THEN (OriginMain :> local) @@ tracking
                                  ELSE tracking
            ELSE UNCHANGED <<remote_tip, tracking>>
    /\ LET ab == get_ahead_behind_count(commits, head, branches, upstream, tracking')
       IN IF ~ab.ok
            THEN SyncReturn(SyncErr("upstream reference not found"))
            ELSE SyncReturn(SyncResult(TRUE, Msg.pushed, FALSE, {}, ab.ahead, ab.behind))
    /\ UNCHANGED <<commits, branches, upstream, head, index, worktree, rebase, merge_head,
                   sync_op, pre, notSyncVars>>

(***************************************************************************)
(* The system-git commands (commands/git.rs 1040-1310).  One run of the    *)
(* git executable is one step; what git does to the repository follows     *)
(* git's documented behaviour.  A run may fail or time out at any point.   *)
(***************************************************************************)
\* get_ahead_behind_with_git: rev-list --left-right --count HEAD...@{upstream};
\* (0, 0) when the command fails (no upstream).
get_ahead_behind_with_git(cs, h, br, up, tr) ==
    IF UpstreamOf(up, Shorthand(h)) = None \/ ~HasRef(tr, UpstreamOf(up, Shorthand(h)))
      THEN [ahead |-> 0, behind |-> 0]
      ELSE graph_ahead_behind(cs, HeadCommit(h, br), tr[UpstreamOf(up, Shorthand(h))])

SystemGitFails(command) ==
    /\ syncPc = "idle"
    /\ sync_op' = [op |-> command]
    /\ pre' = [start |-> Snapshot, fetched |-> NoSnapshot]
    /\ SyncReturn(SyncErr("system git failed"))
    /\ UNCHANGED <<repoVars, notSyncVars>>

fetch_remote_with_system_git ==
    \/ SystemGitFails("system_fetch")
    \/ /\ syncPc = "idle"
       /\ sync_op' = [op |-> "system_fetch"]
       /\ pre' = [start |-> Snapshot, fetched |-> NoSnapshot]
       /\ tracking' = FetchedTracking
       /\ LET ab == get_ahead_behind_with_git(commits, head, branches, upstream, tracking')
          IN SyncReturn(SyncResult(TRUE, Msg.fetched, FALSE, {}, ab.ahead, ab.behind))
       /\ UNCHANGED <<commits, branches, upstream, remote_tip, head, index, worktree, rebase,
                      merge_head, notSyncVars>>

push_remote_with_system_git ==
    \/ SystemGitFails("system_push")
    \/ /\ syncPc = "idle"
       /\ head.kind = "branch"
       /\ \E force \in BOOLEAN :
            /\ sync_op' = [op |-> "system_push", force |-> force]
            \* git exits non-zero when the remote rejects the update
            /\ RemoteAccepts(commits, remote_tip, HeadCommit(head, branches), force)
       /\ pre' = [start |-> Snapshot, fetched |-> NoSnapshot]
       /\ remote_tip' = HeadCommit(head, branches)
       /\ tracking' = IF head.name = Main THEN (OriginMain :> remote_tip') @@ tracking
                      ELSE tracking
       /\ LET ab == get_ahead_behind_with_git(commits, head, branches, upstream, tracking')
          IN SyncReturn(SyncResult(TRUE, Msg.pushed, FALSE, {}, ab.ahead, ab.behind))
       /\ UNCHANGED <<commits, branches, upstream, head, index, worktree, rebase,
                      merge_head, notSyncVars>>

\* git rebase replays todo onto tip; a commit that changes nothing is dropped.
RECURSIVE SystemReplay(_, _, _)
SystemReplay(cs, tip, todo) ==
    IF todo = <<>> THEN [commits |-> cs, tip |-> tip, conflict |-> FALSE, todo |-> todo]
    ELSE LET c == Head(todo)
             merged == merge_trees(ParentTree(cs, c), cs[tip].tree, cs[c].tree)
         IN IF has_conflicts(merged)
              THEN [commits |-> cs, tip |-> tip, conflict |-> TRUE, todo |-> todo,
                    index |-> merged]
            ELSE IF merged.tree = cs[tip].tree THEN SystemReplay(cs, tip, Tail(todo))
            ELSE SystemReplay(Append(cs, Commit(<<tip>>, merged.tree)), Len(cs) + 1, Tail(todo))

\* Mutation of SystemPullConflict: the conflict result is reported as a success.
SystemPullConflict_ReportsSuccess(merged) ==
    SyncReturn(SyncResult(TRUE, Msg.system_conflict, TRUE, merged.conflicts, 0, 0))

\* The pull stopped on conflicts and left them in the repository.  The code
\* finds the conflict only when git names it on stderr; else it returns the
\* failure as an error.
SystemPullConflict(merged) ==
    \/ SyncReturn(SyncResult(FALSE, Msg.system_conflict, TRUE, merged.conflicts, 0, 0))
    \/ SyncReturn(SyncErr("Git pull failed"))

SystemPullDone ==
    LET ab == get_ahead_behind_with_git(commits', head', branches', upstream, tracking')
    IN SyncReturn(SyncResult(TRUE, Msg.system_pulled, FALSE, {}, ab.ahead, ab.behind))

SystemPullMerge(local, up) ==
    LET base == merge_base(commits, local, up)
        merged == merge_trees(TreeOf(commits, base), TreeOf(commits, local), TreeOf(commits, up))
    IN IF base = 0
         THEN /\ SyncReturn(SyncErr("refusing to merge unrelated histories"))
              /\ UNCHANGED <<commits, branches, head, index, worktree, rebase, merge_head>>
       ELSE IF has_conflicts(merged)
         THEN /\ merge_head' = up
              /\ index' = merged
              /\ worktree' = MergedWorktree(merged, TreeOf(commits, local), worktree)
              /\ SystemPullConflict(merged)
              /\ UNCHANGED <<commits, branches, head, rebase>>
       ELSE /\ commits' = Append(commits, Commit(<<local, up>>, merged.tree))
            /\ branches' = [branches EXCEPT ![head.name] = Len(commits) + 1]
            /\ index' = CleanIndex(merged.tree)
            /\ worktree' = MergedWorktree(merged, TreeOf(commits, local), worktree)
            /\ UNCHANGED <<head, rebase, merge_head>>
            /\ SystemPullDone

SystemPullRebase(local, up) ==
    LET r == SystemReplay(commits, up, RebaseOperations(commits, local, up))
    IN /\ commits' = r.commits
       /\ IF r.conflict
            THEN /\ head' = Detached(r.tip)
                 /\ rebase' = [active |-> TRUE, orig_head_id |-> local, head_detached |-> FALSE,
                               orig_head_name |-> head.name, onto |-> up, todo |-> r.todo]
                 /\ index' = r.index
                 /\ worktree' = MergedWorktree(r.index, TreeOf(commits, local), worktree)
                 /\ SystemPullConflict(r.index)
                 /\ UNCHANGED <<branches, merge_head>>
            ELSE /\ branches' = [branches EXCEPT ![head.name] = r.tip]
                 /\ index' = CleanIndex(TreeOf(r.commits, r.tip))
                 /\ worktree' = ForceCheckoutWorktree(TreeOf(r.commits, r.tip), index, worktree)
                 /\ UNCHANGED <<head, rebase, merge_head>>
                 /\ SystemPullDone

pull_remote_with_system_git ==
    \/ SystemGitFails("system_pull")
    \/ /\ syncPc = "idle"
       /\ head.kind = "branch"
       /\ \E strategy \in Strategies :
            /\ sync_op' = [op |-> "system_pull", strategy |-> strategy]
            /\ pre' = [start |-> Snapshot, fetched |-> NoSnapshot]
            /\ tracking' = FetchedTracking
            /\ LET local == HeadCommit(head, branches)
                   up == IF HasRef(tracking', UpstreamOf(upstream, head.name))
                           THEN tracking'[UpstreamOf(upstream, head.name)] ELSE 0
               IN IF up = 0
                    THEN /\ SyncReturn(SyncErr("no tracking information"))
                         /\ UNCHANGED <<commits, branches, head, index, worktree, rebase,
                                        merge_head>>
                  ELSE IF IsDescendant(commits, local, up)
                    THEN /\ UNCHANGED <<commits, branches, head, index, worktree, rebase,
                                        merge_head>>
                         /\ SystemPullDone
                  ELSE IF TrackedChanges(TreeOf(commits, local), index, worktree)
                    THEN \* git refuses to touch a working tree with local changes
                         /\ SyncReturn(SyncErr("local changes would be overwritten"))
                         /\ UNCHANGED <<commits, branches, head, index, worktree, rebase,
                                        merge_head>>
                  ELSE IF IsDescendant(commits, up, local)
                    THEN /\ branches' = [branches EXCEPT ![head.name] = up]
                         /\ index' = CleanIndex(TreeOf(commits, up))
                         /\ worktree' = ForceCheckoutWorktree(TreeOf(commits, up), index, worktree)
                         /\ UNCHANGED <<commits, head, rebase, merge_head>>
                         /\ SystemPullDone
                  ELSE IF strategy = "merge" THEN SystemPullMerge(local, up)
                  ELSE SystemPullRebase(local, up)
       /\ UNCHANGED <<upstream, remote_tip, notSyncVars>>

(***************************************************************************)
(* switch_branch (operations.rs 1412-1470).                                *)
(***************************************************************************)
SwitchResult(success, uncommitted, files) ==
    [kind |-> "ok",
     value |-> [success |-> success, has_uncommitted_changes |-> uncommitted,
                uncommitted_files |-> files]]

\* get_repository_status: the entries, or the error of get_ahead_behind_count.
get_repository_status ==
    LET ab == get_ahead_behind_count(commits, head, branches, upstream, tracking)
    IN IF ~ab.ok THEN [ok |-> FALSE]
       ELSE [ok |-> TRUE,
             files |-> StatusFiles(TreeOf(commits, HeadCommit(head, branches)), index, worktree)]

SwitchTargets == {"main", "dev", "feat", "nowhere"}

\* What switch_branch(branch_name) returns and what it makes of HEAD, the index
\* and the working tree, in a repository whose local branches are br.  HEAD is
\* set to the branch first; the checkout that follows takes the new HEAD as
\* its baseline.
SwitchOutcome(branch_name, br) ==
    LET status == get_repository_status
        untouched(result) ==
            [result |-> result, head |-> head, index |-> index, worktree |-> worktree]
    IN IF ~status.ok THEN untouched(SyncErr("upstream reference not found"))
       ELSE IF status.files # {}
         THEN untouched(SwitchResult(FALSE, TRUE, { e.path : e \in status.files }))
       ELSE IF ~HasRef(br, branch_name) THEN untouched(SyncErr("branch does not exist"))
       ELSE LET target == TreeOf(commits, br[branch_name])
            IN [result |-> SwitchResult(TRUE, FALSE, {}),
                head |-> OnBranch(branch_name),
                index |-> SafeCheckoutIndex(target, target, index, worktree, TRUE),
                worktree |-> SafeCheckoutWorktree(target, target, worktree, TRUE)]

\* lines 1449-1460: find_commit, commit.tree() and checkout_tree leave through
\* `?` after set_head; the failure is taken before a file is written.
CheckoutFailed(branch_name) ==
    [result |-> SyncErr("checkout failed"), head |-> OnBranch(branch_name),
     index |-> index, worktree |-> worktree]

\* The ways switch_branch(branch_name) can end: as SwitchOutcome says, or, once
\* HEAD is set, with a failure of the checkout.
SwitchOutcomes(branch_name, br) ==
    LET o == SwitchOutcome(branch_name, br)
    IN IF o.result.kind = "ok" /\ o.result.value.success
       THEN {o, CheckoutFailed(branch_name)}
       ELSE {o}

switch_branch ==
    /\ syncPc = "idle"
    /\ \E branch_name \in SwitchTargets :
         /\ sync_op' = [op |-> "switch_branch", name |-> branch_name]
         /\ pre' = [start |-> Snapshot, fetched |-> NoSnapshot]
         /\ \E o \in SwitchOutcomes(branch_name, branches) :
               /\ head' = o.head
               /\ index' = o.index
               /\ worktree' = o.worktree
               /\ SyncReturn(o.result)
    /\ UNCHANGED <<commits, branches, tracking, upstream, remote_tip, rebase, merge_head,
                   notSyncVars>>

(***************************************************************************)
(* The branch commands (operations.rs 1326-1607).  A command runs alone on *)
(* the repository and is one step.                                         *)
(***************************************************************************)
LocalNames == {"main", "dev", "feat"}
RemoteNames == {"origin/main", "origin/dev", "origin/HEAD"}

\* repo.head() succeeds: HEAD is detached, or the branch it names exists.
HeadResolves(h, br) == h.kind = "detached" \/ HasRef(br, h.name)

\* get_current_branch_name (operations.rs 1149-1160)
get_current_branch_name(h, br) == IF HeadResolves(h, br) THEN Shorthand(h) ELSE None

\* Branch::upstream(): the configured tracking branch, when its reference exists.
BranchUpstream(name, up, tr) ==
    IF UpstreamOf(up, name) # None /\ HasRef(tr, UpstreamOf(up, name))
      THEN UpstreamOf(up, name) ELSE None

\* Branch::delete(): refused for the branch HEAD names; else the reference and
\* the branch's configuration section are removed.
BranchDeleteRefused(name, h) == h = OnBranch(name)
BranchesWithout(name, br) == [br EXCEPT ![name] = 0]
UpstreamWithout(name, up) == [up EXCEPT ![name] = None]

\* Mutation of HasUnmergedCommits: the check is skipped.
HasUnmergedCommits_Never(name) == FALSE

\* delete_branch, lines 1500-1515: the branch has an upstream and is ahead of it.
HasUnmergedCommits(name) ==
    /\ BranchUpstream(name, upstream, tracking) # None
    /\ graph_ahead_behind(commits, branches[name],
                          tracking[BranchUpstream(name, upstream, tracking)]).ahead > 0

BranchResult(success) == SwitchResult(success, FALSE, {})

\* delete_branch (operations.rs 1473-1528)
delete_branch ==
    /\ syncPc = "idle"
    /\ \E branch_name \in LocalNames, force \in BOOLEAN :
         /\ sync_op' = [op |-> "delete_branch", name |-> branch_name, force |-> force]
         /\ pre' = [start |-> Snapshot, fetched |-> NoSnapshot]
         /\ IF get_current_branch_name(head, branches) = branch_name
              THEN /\ SyncReturn(SyncErr("cannot delete the current branch"))
                   /\ UNCHANGED <<branches, upstream>>
            ELSE IF ~HasRef(branches, branch_name)
              THEN /\ SyncReturn(SyncErr("branch does not exist"))
                   /\ UNCHANGED <<branches, upstream>>
            ELSE IF ~force /\ HasUnmergedCommits(branch_name)
              THEN /\ SyncReturn(SyncErr("branch has unmerged commits"))
                   /\ UNCHANGED <<branches, upstream>>
            ELSE IF BranchDeleteRefused(branch_name, head)
              THEN /\ SyncReturn(SyncGitErr([class |-> "Reference", msg |-> "current_head"]))
                   /\ UNCHANGED <<branches, upstream>>
            ELSE /\ branches' = BranchesWithout(branch_name, branches)
                 /\ upstream' = UpstreamWithout(branch_name, upstream)
                 /\ SyncReturn(BranchResult(TRUE))
    /\ UNCHANGED <<commits, tracking, remote_tip, head, index, worktree, rebase, merge_head,
                   notSyncVars>>

\* The text of a branch name after its first '/', the whole name when it has
\* none (operations.rs 1610-1617).
extract_local_branch_name(remote_branch_name) ==
    CASE remote_branch_name = "origin/main" -> "main"
      [] remote_branch_name = "origin/dev" -> "dev"
      [] remote_branch_name = "origin/HEAD" -> "HEAD"
      [] OTHER -> remote_branch_name

\* origin/HEAD is a symbolic reference: it has no target of its own.
IsSymbolicRef(remote_branch_name) == remote_branch_name = "origin/HEAD"

\* set_upstream_branch (operations.rs 1620-1660)
set_upstream_branch(up, local_branch, remote_branch) ==
    [up EXCEPT ![local_branch] = remote_branch]

CheckoutLocalNames == {None, "feat"}

\* checkout_remote_branch, line 1587: an Err of switch_branch leaves the
\* function through `?`, before the branch that deletes the new local branch.
SwitchFailureKeepsBranch(result) == result.kind = "err"

\* checkout_remote_branch (operations.rs 1531-1607)
checkout_remote_branch ==
    /\ syncPc = "idle"
    /\ \E remote_branch_name \in RemoteNames, local_branch_name \in CheckoutLocalNames :
         LET local_name == IF local_branch_name # None THEN local_branch_name
                           ELSE extract_local_branch_name(remote_branch_name)
             created == [branches EXCEPT ![local_name] = tracking[remote_branch_name]]
             tracked == set_upstream_branch(upstream, local_name, remote_branch_name)
             unchanged == UNCHANGED <<branches, upstream, head, index, worktree>>
         IN \E o \in SwitchOutcomes(local_name, created) :
            /\ sync_op' = [op |-> "checkout_remote_branch", remote |-> remote_branch_name,
                           name |-> local_name]
            /\ pre' = [start |-> Snapshot, fetched |-> NoSnapshot]
            /\ IF HasRef(branches, local_name)
                 THEN SyncReturn(SyncErr("local branch exists")) /\ unchanged
               ELSE IF ~IsSymbolicRef(remote_branch_name) /\ ~HasRef(tracking, remote_branch_name)
                 THEN SyncReturn(SyncErr("remote branch does not exist")) /\ unchanged
               ELSE IF IsSymbolicRef(remote_branch_name)
                 THEN SyncReturn(SyncErr("remote branch has no target")) /\ unchanged
               ELSE IF SwitchFailureKeepsBranch(o.result)
                 THEN /\ branches' = created
                      /\ upstream' = tracked
                      /\ head' = o.head
                      /\ UNCHANGED <<index, worktree>>
                      /\ SyncReturn(o.result)
               ELSE IF ~o.result.value.success
                 THEN /\ SyncReturn(SyncErr("checked out but the switch failed"))
                      /\ branches' = BranchesWithout(local_name, created)
                      /\ upstream' = UpstreamWithout(local_name, tracked)
                      /\ UNCHANGED <<head, index, worktree>>
               ELSE /\ branches' = created
                    /\ upstream' = tracked
                    /\ head' = o.head
                    /\ index' = o.index
                    /\ worktree' = o.worktree
                    /\ SyncReturn(BranchResult(TRUE))
    /\ UNCHANGED <<commits, tracking, remote_tip, rebase, merge_head, notSyncVars>>

\* Object ids are written as OidLen hexadecimal digits; commit c has the id
\* c c c.  An abbreviated id is a proper prefix of the full one.
OidLen == 3
OidOf(c) == [i \in 1..OidLen |-> c]

\* Oid::from_str: one to OidLen hexadecimal digits are accepted and the missing
\* digits are zero.
Oid_from_str(commit_ref) ==
    IF commit_ref.text = "hex" /\ Len(commit_ref.digits) \in 1..OidLen
      THEN [ok |-> TRUE,
            oid |-> [i \in 1..OidLen |->
                       IF i <= Len(commit_ref.digits) THEN commit_ref.digits[i] ELSE 0]]
      ELSE [ok |-> FALSE]

\* Repository::find_commit(oid): the commit with exactly this id, 0 when the
\* object database has none.
find_commit(cs, oid) ==
    IF \E c \in 1..Len(cs) : OidOf(c) = oid
      THEN CHOOSE c \in 1..Len(cs) : OidOf(c) = oid
      ELSE 0

NoFrom == [text |-> "none"]
FromName(name) == [text |-> "name", name |-> name]
FromHex(digits) == [text |-> "hex", digits |-> digits]
\* A full reference name: HEAD, or refs/heads/<branch>.
FromRef(refname) == [text |-> "ref", refname |-> refname]
RefHead == [space |-> "HEAD", name |-> None]
RefLocal(name) == [space |-> "refs/heads", name |-> name]
FromCommits ==
    {NoFrom, FromName("main"), FromName("nowhere"), FromHex(OidOf(3)), FromHex(<<3, 3>>),
     FromRef(RefHead), FromRef(RefLocal("main"))}

\* Repository::find_reference(name) and Reference::target(): HEAD exists
\* always and has a target only when it is detached; refs/heads/<branch>
\* exists when the branch does; a bare name is not a reference name.
find_reference(refname) ==
    IF refname.space = "HEAD"
      THEN [found |-> TRUE, target |-> IF head.kind = "detached" THEN head.oid ELSE 0]
    ELSE IF refname.space = "refs/heads" /\ HasRef(branches, refname.name)
      THEN [found |-> TRUE, target |-> branches[refname.name]]
    ELSE [found |-> FALSE, target |-> 0]

\* The argument of the third attempt, and format!("refs/heads/{}", commit_ref),
\* the argument of the fourth.
AsReference(from_commit) ==
    IF from_commit.text = "ref" THEN from_commit.refname
    ELSE [space |-> "bare", name |-> from_commit.name]
UnderRefsHeads(from_commit) ==
    IF from_commit.text = "name" THEN RefLocal(from_commit.name)
    ELSE [space |-> "refs/heads/<reference>", name |-> from_commit.refname.name]

\* lines 1365-1369 and 1372-1376: the commit of a reference that was found;
\* a reference without a target ends the call.
ResolveReference(reference) ==
    IF reference.target = 0
      THEN [ok |-> FALSE, commit |-> 0, error |-> "cannot get the target of the reference"]
      ELSE [ok |-> TRUE, commit |-> reference.target, error |-> "none"]
CreateNames == {"feat", "main"}

\* create_branch, lines 1349-1391: the commit from_commit names.  A local
\* branch name is tried first, then an object id, then a reference name (a bare
\* name is not a reference name), then refs/heads/<name>.
ResolveFromCommit(from_commit) ==
    IF from_commit.text = "none"
      THEN IF HeadResolves(head, branches)
             THEN [ok |-> TRUE, commit |-> HeadCommit(head, branches), error |-> "none"]
             ELSE [ok |-> FALSE, commit |-> 0, error |-> "reference not found"]
    ELSE IF from_commit.text = "name" /\ HasRef(branches, from_commit.name)
      THEN [ok |-> TRUE, commit |-> branches[from_commit.name], error |-> "none"]
    ELSE IF Oid_from_str(from_commit).ok
      THEN IF find_commit(commits, Oid_from_str(from_commit).oid) # 0
             THEN [ok |-> TRUE, commit |-> find_commit(commits, Oid_from_str(from_commit).oid),
                   error |-> "none"]
             ELSE [ok |-> FALSE, commit |-> 0, error |-> "object not found"]
    ELSE IF find_reference(AsReference(from_commit)).found
      THEN ResolveReference(find_reference(AsReference(from_commit)))
    ELSE IF find_reference(UnderRefsHeads(from_commit)).found
      THEN ResolveReference(find_reference(UnderRefsHeads(from_commit)))
    ELSE [ok |-> FALSE, commit |-> 0, error |-> "cannot find branch, commit or reference"]

\* create_branch (operations.rs 1326-1409)
create_branch ==
    /\ syncPc = "idle"
    /\ \E branch_name \in CreateNames, from_commit \in FromCommits, checkout \in BOOLEAN :
         LET target == ResolveFromCommit(from_commit)
             created == [branches EXCEPT ![branch_name] = target.commit]
         IN \E o \in SwitchOutcomes(branch_name, created) :
            /\ sync_op' = [op |-> "create_branch", name |-> branch_name,
                           from |-> from_commit, checkout |-> checkout]
            /\ pre' = [start |-> Snapshot, fetched |-> NoSnapshot]
            /\ IF HasRef(branches, branch_name)
                 THEN /\ SyncReturn(SyncErr("branch exists"))
                      /\ UNCHANGED <<branches, head, index, worktree>>
               ELSE IF ~target.ok
                 THEN /\ SyncReturn(SyncErr(target.error))
                      /\ UNCHANGED <<branches, head, index, worktree>>
               ELSE IF checkout
                 THEN /\ branches' = created
                      /\ head' = o.head
                      /\ index' = o.index
                      /\ worktree' = o.worktree
                      /\ SyncReturn(o.result)
               ELSE /\ branches' = created
                    /\ UNCHANGED <<head, index, worktree>>
                    /\ SyncReturn(BranchResult(TRUE))
    /\ UNCHANGED <<commits, tracking, upstream, remote_tip, rebase, merge_head, notSyncVars>>

\* Mutation of is_remote_head_branch: nothing is filtered.
is_remote_head_branch_Never(branch_name) == FALSE

\* is_remote_head_branch (operations.rs 1163-1167): the name ends with "/HEAD".
is_remote_head_branch(branch_name) == branch_name \in {"origin/HEAD", "upstream/HEAD"}

\* create_branch_info (operations.rs 1094-1146)
create_branch_info(name, is_current, is_remote) ==
    LET up == IF ~is_remote THEN BranchUpstream(name, upstream, tracking) ELSE None
        ab == IF ~is_remote /\ up # None
                THEN graph_ahead_behind(commits, branches[name], tracking[up])
                ELSE [ahead |-> 0, behind |-> 0]
    IN [name |-> name, is_current |-> is_current, is_remote |-> is_remote, upstream |-> up,
        ahead |-> ab.ahead, behind |-> ab.behind,
        last_commit |-> IF is_remote THEN tracking[name] ELSE branches[name]]

\* list_branches (operations.rs 1037-1091): the entries of the list it returns.
list_branches ==
    { create_branch_info(n, get_current_branch_name(head, branches) = n, FALSE) :
        n \in { l \in LocalNames : HasRef(branches, l) } }
    \cup
    { create_branch_info(n, FALSE, TRUE) :
        n \in { r \in RemoteNames : HasRef(tracking, r) /\ ~is_remote_head_branch(r) } }

\* The command has returned; the caller invokes the next one.
NextCommand ==
    /\ syncPc = "done"
    /\ commands_done < MaxCommands
    /\ commands_done' = commands_done + 1
    /\ syncPc' = "idle"
    /\ sync_op' = [op |-> "none"]
    /\ pre' = [start |-> NoSnapshot, fetched |-> NoSnapshot]
    /\ sync_result' = NoResult
    /\ UNCHANGED <<repoVars, notBranchVars>>

(***************************************************************************)
(* Repositories the operations start from.                                 *)
(***************************************************************************)
\* The histories of at most n commits that grow from a tree, each commit
\* changing one path; a history is the sequence of its commits' trees.
\* The trees one commit away from a tree: one path is added, changed or removed.
Edits(tree) ==
    { [tree EXCEPT ![p] = c] : p \in Files, c \in Contents \cup {Absent} } \ {tree}

RECURSIVE Chains(_, _)
Chains(tree, n) ==
    IF n = 0 THEN {<<>>}
    ELSE {<<>>} \cup
         UNION { { <<e>> \o rest : rest \in Chains(e, n - 1) } : e \in Edits(tree) }

\* The commits of a chain appended to the database cs: the first commit's
\* parent is first_parent (0: a root commit).
ChainCommits(cs, chain, first_parent) ==
    [i \in 1..Len(chain) |->
        Commit(IF i = 1 THEN (IF first_parent = 0 THEN <<>> ELSE <<first_parent>>)
               ELSE <<Len(cs) + i - 1>>,
               chain[i])]

ChainTip(cs, chain, first_parent) == IF chain = <<>> THEN first_parent ELSE Len(cs) + Len(chain)

DirtyKinds == {"clean", "unstaged", "staged", "untracked"}

DirtyIndex(kind, tree) ==
    CleanIndex(IF kind = "staged" THEN [tree EXCEPT !["f"] = LocalEdit] ELSE tree)

DirtyWorktree(kind, tree) ==
    IF kind \in {"staged", "unstaged"} THEN [tree EXCEPT !["f"] = LocalEdit]
    ELSE IF kind = "untracked" THEN [tree EXCEPT !["g"] = LocalEdit]
    ELSE tree

UpstreamKinds == {"tracked", "none", "gone"}

RootCommit == Commit(<<>>, BaseTree)

SyncIdle ==
    /\ syncPc = "idle"
    /\ sync_op = [op |-> "none"]
    /\ pre = [start |-> NoSnapshot, fetched |-> NoSnapshot]
    /\ sync_result = NoResult
    /\ commands_done = 0

\* A clone of the remote (commit 1) with local commits on main, and a remote
\* that has moved on since the last fetch, from commit 1 or from a new root.
SyncInit ==
    /\ \E lc \in Chains(BaseTree, MaxChain), rc \in Chains(BaseTree, MaxChain),
          related \in BOOLEAN, up \in UpstreamKinds, dirty \in DirtyKinds \ {"untracked"} :
         LET local == <<RootCommit>> \o ChainCommits(<<RootCommit>>, lc, 1)
             all == local \o ChainCommits(local, rc, IF related THEN 1 ELSE 0)
             tip == ChainTip(<<RootCommit>>, lc, 1)
         IN /\ related \/ rc # <<>>
            /\ up = "gone" => (rc = <<>> /\ related)
            /\ commits = all
            /\ branches = (Main :> tip)
            /\ head = OnBranch(Main)
            /\ upstream = (Main :> IF up = "none" THEN None ELSE OriginMain)
            /\ tracking = (OriginMain :> IF up = "gone" THEN 0 ELSE 1)
            /\ remote_tip = IF up = "gone" THEN 0 ELSE ChainTip(local, rc, 1)
            /\ index = DirtyIndex(dirty, TreeOf(all, tip))
            /\ worktree = DirtyWorktree(dirty, TreeOf(all, tip))
    /\ rebase = NoRebase
    /\ merge_head = 0
    /\ SyncIdle

\* A repository with two local branches, main checked out.
BranchInit ==
    /\ \E mc \in Chains(BaseTree, MaxChain), dc \in Chains(BaseTree, MaxChain),
          up \in UpstreamKinds, dirty \in DirtyKinds :
         LET onMain == <<RootCommit>> \o ChainCommits(<<RootCommit>>, mc, 1)
             all == onMain \o ChainCommits(onMain, dc, 1)
             tip == ChainTip(<<RootCommit>>, mc, 1)
         IN /\ dirty = "untracked" => TreeOf(all, tip)["g"] = Absent
            /\ commits = all
            /\ branches = (Main :> tip) @@ ("dev" :> ChainTip(onMain, dc, 1))
            /\ head = OnBranch(Main)
            /\ upstream = (Main :> IF up = "none" THEN None ELSE OriginMain) @@ ("dev" :> None)
            /\ tracking = (OriginMain :> IF up = "gone" THEN 0 ELSE 1)
            /\ remote_tip = IF up = "gone" THEN 0 ELSE 1
            /\ index = DirtyIndex(dirty, TreeOf(all, tip))
            /\ worktree = DirtyWorktree(dirty, TreeOf(all, tip))
    /\ rebase = NoRebase
    /\ merge_head = 0
    /\ SyncIdle

\* A repository with the commits 1 (the root), 2 (a local commit on 1) and 3
\* (a commit of the remote on 1), the branch main, possibly the branch dev, and
\* the remote-tracking branches of origin.
BranchesInit ==
    /\ commits = << RootCommit,
                    Commit(<<1>>, [BaseTree EXCEPT !["f"] = "b"]),
                    Commit(<<1>>, [BaseTree EXCEPT !["g"] = "a"]) >>
    /\ \E m \in {1, 2}, d \in {0, 2}, om \in {0, 1}, od \in {0, 3}, detached \in BOOLEAN,
          um \in {None, OriginMain}, ud \in {None, "origin/dev"}, dirty \in {"clean", "unstaged"} :
         /\ d = 0 => ud = None
         /\ branches = [n \in LocalNames |-> IF n = Main THEN m ELSE IF n = "dev" THEN d ELSE 0]
         /\ tracking = [n \in RemoteNames |->
                           IF n = "origin/dev" THEN od ELSE om]
         /\ upstream = [n \in LocalNames |-> IF n = Main THEN um ELSE IF n = "dev" THEN ud ELSE None]
         /\ head = IF detached THEN Detached(m) ELSE OnBranch(Main)
         /\ index = DirtyIndex(dirty, TreeOf(commits, m))
         /\ worktree = DirtyWorktree(dirty, TreeOf(commits, m))
    /\ remote_tip = 0
    /\ rebase = NoRebase
    /\ merge_head = 0
    /\ SyncIdle

SyncNext ==
    \/ StartFetch
    \/ StartPull
    \/ StartPush
    \/ FetchFails
    \/ FetchRemote
    \/ PullResolve
    \/ perform_merge
    \/ RebaseStart
    \/ RebaseStep
    \/ RebaseStepFails
    \/ RebaseFinish
    \/ PushFails
    \/ PushRemote
    \/ fetch_remote_with_system_git
    \/ push_remote_with_system_git
    \/ pull_remote_with_system_git

BranchNext == switch_branch

BranchesNext ==
    \/ switch_branch
    \/ delete_branch
    \/ checkout_remote_branch
    \/ create_branch
    \/ NextCommand

(***************************************************************************)
(* Claims about sync results and pull.                                     *)
(***************************************************************************)
SyncOps == {"fetch", "pull", "push", "system_fetch", "system_pull", "system_push"}

\* C5: every SyncResult a sync operation returns satisfies: has_conflicts
\* implies success = false and ahead = behind = 0; success implies an empty
\* conflict_files.
C5_SyncResultInvariant ==
    (sync_op.op \in SyncOps /\ sync_result.kind = "ok") =>
        LET r == sync_result.value
        IN /\ r.has_conflicts => (~r.success /\ r.ahead = 0 /\ r.behind = 0)
           /\ r.success => r.conflict_files = {}

\* Both sides of C5 happen: a conflict result with conflict files, and (in
\* other runs) successes with counts above zero.
C5_Witness ==
    /\ sync_op.op = "system_pull"
    /\ sync_result.kind = "ok"
    /\ sync_result.value.has_conflicts
    /\ sync_result.value.conflict_files # {}

C5_WitnessSuccess ==
    /\ sync_op.op = "push"
    /\ sync_result.kind = "ok"
    /\ sync_result.value.success
    /\ sync_result.value.ahead > 0

\* The embedded pull has fetched and resolved HEAD and its upstream to two
\* different commits: local and up below are the arguments of perform_merge
\* and perform_rebase.
PullReachedStrategy(strategy) ==
    /\ sync_op.op = "pull"
    /\ sync_op.strategy = strategy
    /\ syncPc = "done"
    /\ pre.fetched # NoSnapshot
    /\ UpstreamOf(upstream, Main) # None
    /\ HasRef(pre.fetched.tracking, OriginMain)
    /\ pre.fetched.tracking[OriginMain] # pre.fetched.branches[Main]

PulledLocal == pre.fetched.branches[Main]
PulledUpstream == pre.fetched.tracking[OriginMain]

\* The commits created since the fetch.
NewCommits == (pre.fetched.ncommits + 1)..Len(commits)

\* C6 (as claimed): when the embedded rebase hits a conflict the rebase is
\* aborted; afterwards HEAD, the current branch reference and the index are
\* what they were before the rebase, no rebase is in progress, and no replayed
\* commit is reachable from HEAD.
C6_RebaseConflictRestoresRepository ==
    (PullReachedStrategy("rebase") /\ sync_result.kind = "ok"
        /\ sync_result.value.has_conflicts) =>
        /\ head = pre.fetched.head
        /\ branches = pre.fetched.branches
        /\ index = pre.fetched.index
        /\ rebase = NoRebase
        /\ NewCommits \cap Ancestors(commits, HeadCommit(head, branches)) = {}

\* What does hold after the abort: HEAD resolves to the commit it resolved to
\* before, the branch and the index are unchanged, no rebase is in progress and
\* no replayed commit is reachable; but HEAD is left detached.
C6_RebaseConflictRestoresCommit ==
    (PullReachedStrategy("rebase") /\ sync_result.kind = "ok"
        /\ sync_result.value.has_conflicts) =>
        /\ head = Detached(PulledLocal)
        /\ branches = pre.fetched.branches
        /\ index = pre.fetched.index
        /\ rebase = NoRebase
        /\ NewCommits \cap Ancestors(commits, HeadCommit(head, branches)) = {}

\* The three-way merge of the pulled commits finds a conflict.
MergeFindsConflict ==
    LET base == merge_base(commits, PulledLocal, PulledUpstream)
    IN /\ base \notin {0, PulledLocal, PulledUpstream}
       /\ MergeConflicts(TreeOf(commits, base), TreeOf(commits, PulledLocal),
                         TreeOf(commits, PulledUpstream)) # {}

\* C7: when the three-way merge of the embedded merge-pull detects a conflict,
\* pull returns Ok with success = false and has_conflicts = true, creates no
\* commit, and leaves HEAD, the branches, the index and the working tree as
\* they were after the fetch.
C7_MergeConflictLeavesRepository ==
    (PullReachedStrategy("merge") /\ MergeFindsConflict) =>
        /\ sync_result.kind = "ok"
        /\ ~sync_result.value.success
        /\ sync_result.value.has_conflicts
        /\ Len(commits) = pre.fetched.ncommits
        /\ head = pre.fetched.head
        /\ branches = pre.fetched.branches
        /\ index = pre.fetched.index
        /\ worktree = pre.fetched.worktree
        /\ merge_head = 0

C7_Witness ==
    /\ PullReachedStrategy("merge")
    /\ MergeFindsConflict
    /\ sync_result.kind = "ok"
    /\ sync_result.value.conflict_files # {}

MergeCommitCreated ==
    /\ Len(commits) = pre.fetched.ncommits + 1
    /\ commits[Len(commits)].parents = <<PulledLocal, PulledUpstream>>
    /\ branches[Main] = Len(commits)

TookFastForward ==
    /\ sync_result.kind = "ok"
    /\ sync_result.value.message = Msg.fast_forward
    /\ branches[Main] = PulledUpstream
    /\ Len(commits) = pre.fetched.ncommits

ConflictReported == sync_result.kind = "ok" /\ sync_result.value.has_conflicts

\* The merge-strategy pull has fetched and found the upstream of HEAD.
MergePullResolved ==
    /\ sync_op.op = "pull"
    /\ sync_op.strategy = "merge"
    /\ syncPc = "done"
    /\ pre.fetched # NoSnapshot
    /\ UpstreamOf(upstream, Main) # None
    /\ HasRef(pre.fetched.tracking, OriginMain)

C8_WitnessNothingToMerge ==
    /\ MergePullResolved
    /\ PulledLocal # PulledUpstream
    /\ IsDescendant(commits, PulledLocal, PulledUpstream)
    /\ sync_result.kind = "ok"
    /\ sync_result.value.message = Msg.nothing_to_merge

\* The embedded operation ended with a library error of the SSH host-key class.
C12_EmbeddedSshFailure ==
    /\ sync_op.op \in {"fetch", "pull", "push"}
    /\ syncPc = "done"
    /\ sync_result.kind = "err"
    /\ "git" \in DOMAIN sync_result
    /\ is_ssh_hostkey_error(sync_result.git)

\* The number of runs of the external tool during the operation: the tool is
\* run by the *_with_system_git commands only.
C12_ExternalRuns == IF sync_op.op \in {"system_fetch", "system_pull", "system_push"} THEN 1 ELSE 0

\* C12 (as claimed): when an embedded fetch, pull or push fails with an SSH
\* host-key-class error, the operation is re-executed exactly once through the
\* external tool before an error is returned to the caller.
C12_SshFailureReExecutedExternally ==
    C12_EmbeddedSshFailure => C12_ExternalRuns = 1

\* The branch the operation ran on has an upstream whose reference exists.
C13_HasUpstream ==
    /\ UpstreamOf(upstream, Main) # None
    /\ HasRef(tracking, OriginMain)

\* The counts of the commit graph at this moment, for the branch and its upstream.
C13_GraphCounts == graph_ahead_behind(commits, branches[Main], tracking[OriginMain])

C13_ReturnsGraphCounts ==
    /\ sync_result.value.ahead = C13_GraphCounts.ahead
    /\ sync_result.value.behind = C13_GraphCounts.behind

\* C13 (as claimed): for a branch with an upstream, the ahead and behind values
\* of every successful fetch, pull and push result equal, when the operation
\* returns, the number of commits reachable from the branch and not from its
\* upstream, and the number reachable from the upstream and not from the branch.
C13_CountsMatchCommitGraph ==
    (sync_op.op \in SyncOps /\ syncPc = "done" /\ sync_result.kind = "ok"
        /\ sync_result.value.success /\ C13_HasUpstream) =>
        C13_ReturnsGraphCounts

\* What does hold: the counts are those of the graph in every successful
\* result except the ones perform_merge and perform_rebase build, which carry 0
\* and 0 whatever the graph is.
C13_CountsMatchOutsideMergeAndRebase ==
    (sync_op.op \in SyncOps /\ syncPc = "done" /\ sync_result.kind = "ok"
        /\ sync_result.value.success /\ C13_HasUpstream) =>
        \/ C13_ReturnsGraphCounts
        \/ /\ sync_op.op = "pull"
           /\ sync_result.value.message \in {Msg.merged, Msg.nothing_to_merge, Msg.rebased}
           /\ sync_result.value.ahead = 0
           /\ sync_result.value.behind = 0

\* The rebase-strategy pull returned an error raised inside the replay loop
\* of perform_rebase.
C26_ReplayLoopFailed ==
    /\ PullReachedStrategy("rebase")
    /\ sync_result.kind = "err"
    /\ sync_result.error \in {"rebase step failed", "this patch has already been applied"}

\* C26 (as claimed): when a step of the replay loop fails, the rebase is
\* aborted before the error is returned: no rebase is in progress and HEAD and
\* the index are what they were before the rebase.
C26_ReplayFailureAbortsRebase ==
    C26_ReplayLoopFailed =>
        /\ rebase = NoRebase
        /\ head = pre.fetched.head
        /\ index = pre.fetched.index

\* What does hold: only a failure of rebase.next() is followed by an abort,
\* which puts the index back and leaves HEAD detached at the original commit;
\* a failure of rebase.commit() is returned with the rebase in progress.
C26_OnlyNextFailureAbortsRebase ==
    C26_ReplayLoopFailed =>
        IF sync_result.error = "rebase step failed"
        THEN /\ rebase = NoRebase
             /\ head = Detached(PulledLocal)
             /\ index = pre.fetched.index
        ELSE /\ rebase # NoRebase
             /\ head # pre.fetched.head

\* The embedded pull has reported conflicts.
C27_PullReportsConflicts ==
    /\ sync_op.op = "pull"
    /\ syncPc = "done"
    /\ sync_result.kind = "ok"
    /\ sync_result.value.has_conflicts

\* The conflicted paths of the three-way merge of the pulled commits.
C27_MergeConflictPaths ==
    MergeConflicts(TreeOf(commits, merge_base(commits, PulledLocal, PulledUpstream)),
                   TreeOf(commits, PulledLocal), TreeOf(commits, PulledUpstream))

\* C27 (as claimed): when a pull reports has_conflicts = true, conflict_files
\* holds the path of every conflicted index entry, also of a conflict whose
\* local side has no entry; in particular it is not empty.
C27_ConflictFilesHoldEveryConflict ==
    C27_PullReportsConflicts =>
        /\ sync_result.value.conflict_files # {}
        /\ PullReachedStrategy("merge") =>
              sync_result.value.conflict_files = C27_MergeConflictPaths

\* What does hold: the merge reports the conflicted paths that have an entry
\* on the local side; the rebase reads the index after the abort has reset
\* it and reports none.
C27_ConflictFilesHoldLocalEntries ==
    C27_PullReportsConflicts =>
        /\ PullReachedStrategy("merge") =>
              sync_result.value.conflict_files =
                 { p \in C27_MergeConflictPaths : TreeOf(commits, PulledLocal)[p] # Absent }
        /\ PullReachedStrategy("rebase") => sync_result.value.conflict_files = {}

\* The histories of the pulled commits have diverged: neither is an ancestor
\* of the other and they have a merge base.
C28_Diverged ==
    merge_base(commits, PulledLocal, PulledUpstream) \notin {0, PulledLocal, PulledUpstream}

\* The tree t is the three-way merge, free of conflicts, of ours and theirs
\* over anc: every path carries the side that changed it.
C28_IsCleanMerge(t, anc, ours, theirs) ==
    \A p \in Files :
        /\ ours[p] = anc[p] => t[p] = theirs[p]
        /\ theirs[p] = anc[p] => t[p] = ours[p]
        /\ ours[p] = theirs[p] => t[p] = ours[p]

\* Exactly one commit was created; its parents are the local HEAD commit and
\* the upstream commit in this order, its tree is their three-way merge over
\* the merge base, and the current branch points to it.
C28_MergeCommit ==
    /\ Len(commits) = pre.fetched.ncommits + 1
    /\ commits[Len(commits)].parents = <<PulledLocal, PulledUpstream>>
    /\ C28_IsCleanMerge(commits[Len(commits)].tree,
                        TreeOf(commits, merge_base(commits, PulledLocal, PulledUpstream)),
                        TreeOf(commits, PulledLocal), TreeOf(commits, PulledUpstream))
    /\ head = pre.fetched.head
    /\ branches = [pre.fetched.branches EXCEPT ![Main] = Len(commits)]

\* C28 (as claimed): a merge-strategy pull that is neither a fast-forward nor
\* conflicting creates exactly one commit with the parents (local HEAD,
\* upstream) and the three-way merged tree, and the current branch points to
\* it when pull returns.
C28_NonConflictingPullCreatesMergeCommit ==
    (PullReachedStrategy("merge") /\ ~TookFastForward /\ ~ConflictReported) =>
        C28_MergeCommit

\* C28 (amended): the merge commit is created when the histories have diverged
\* and their three-way merge has no conflict; a pull whose upstream is an
\* ancestor of local HEAD, or shares no history with it, creates no commit.
C28_DivergedPullCreatesMergeCommit ==
    PullReachedStrategy("merge") =>
        /\ (C28_Diverged /\ ~MergeFindsConflict) =>
              /\ sync_result.kind = "ok"
              /\ sync_result.value.success
              /\ C28_MergeCommit
        /\ ~C28_Diverged => Len(commits) = pre.fetched.ncommits

\* A merge commit was created whose tree takes a change from each side.
C28_Witness ==
    /\ PullReachedStrategy("merge")
    /\ C28_Diverged
    /\ ~MergeFindsConflict
    /\ Len(commits) = pre.fetched.ncommits + 1
    /\ commits[Len(commits)].tree # TreeOf(commits, PulledLocal)
    /\ commits[Len(commits)].tree # TreeOf(commits, PulledUpstream)

\* A pull through the external tool has reported conflicts.
C32_SystemPullReportsConflicts ==
    /\ sync_op.op = "system_pull"
    /\ syncPc = "done"
    /\ sync_result.kind = "ok"
    /\ sync_result.value.has_conflicts

\* C32 (as claimed): when a pull through the external tool reports
\* has_conflicts = true, no merge and no rebase is in progress: with the
\* rebase strategy HEAD is back at its commit of before the pull, with the
\* merge strategy no partial merge state and no commit remains.
C32_SystemPullConflictLeavesNothingInProgress ==
    C32_SystemPullReportsConflicts =>
        /\ merge_head = 0
        /\ rebase = NoRebase
        /\ sync_op.strategy = "rebase" =>
              /\ head = pre.start.head
              /\ HeadCommit(head, branches) = HeadCommit(pre.start.head, pre.start.branches)
        /\ sync_op.strategy = "merge" =>
              /\ index.conflicts = {}
              /\ Len(commits) = pre.start.ncommits

\* What does hold: the command returns with the operation git stopped in:
\* the merge is in progress with its conflicts in the index, or the rebase is
\* in progress with HEAD detached; the branch itself has not moved.
C32_SystemPullConflictLeftInProgress ==
    C32_SystemPullReportsConflicts =>
        /\ branches = pre.start.branches
        /\ index.conflicts # {}
        /\ sync_op.strategy = "merge" =>
              /\ merge_head # 0
              /\ head = pre.start.head
              /\ Len(commits) = pre.start.ncommits
        /\ sync_op.strategy = "rebase" =>
              /\ rebase # NoRebase
              /\ head.kind = "detached"

\* The embedded pull has returned success.
C33_PullSucceeded ==
    /\ sync_op.op = "pull"
    /\ syncPc = "done"
    /\ sync_result.kind = "ok"
    /\ sync_result.value.success

\* The files a status call reports on the repository as it is, and as it was
\* when the operation started.
C33_StatusNow == StatusFiles(TreeOf(commits, HeadCommit(head, branches)), index, worktree)
C33_StatusBefore ==
    StatusFiles(TreeOf(commits, HeadCommit(pre.start.head, pre.start.branches)),
                pre.start.index, pre.start.worktree)

\* C33 (as claimed): after a pull that returns success in a repository whose
\* index and working tree were clean, the index and the working tree match
\* the tree of the new HEAD commit: a status call reports is_clean = true.
C33_SuccessfulPullLeavesCleanTree ==
    (C33_PullSucceeded /\ C33_StatusBefore = {}) =>
        /\ index.tree = TreeOf(commits, HeadCommit(head, branches))
        /\ C33_StatusNow = {}

\* What does hold: the tree is clean after every successful pull except the
\* one that created a merge commit, after which the index and the working
\* tree are still those of the previous HEAD commit.
C33_OnlyMergeCommitLeavesOldTree ==
    (C33_PullSucceeded /\ C33_StatusBefore = {}) =>
        IF sync_result.value.message = Msg.merged
        THEN /\ index = pre.start.index
             /\ worktree = pre.start.worktree
        ELSE C33_StatusNow = {}

\* The embedded pull has returned, with whatever result.
C34_PullReturned == sync_op.op = "pull" /\ syncPc = "done"

C34_TreeBefore == TreeOf(commits, HeadCommit(pre.start.head, pre.start.branches))

\* The files of the HEAD commit that carried uncommitted work when the pull
\* started: a modification staged in the index, or made in the working tree.
C34_Tracked == { p \in Files : C34_TreeBefore[p] # Absent }
C34_StagedBefore == { p \in C34_Tracked : pre.start.index.tree[p] # C34_TreeBefore[p] }
C34_ModifiedBefore == { p \in C34_Tracked : pre.start.worktree[p] # C34_TreeBefore[p] }

\* C34 (as claimed): a pull never discards uncommitted work: every staged or
\* unstaged modification present before the pull is still present when it
\* returns, whatever it returns.
C34_PullKeepsUncommittedWork ==
    C34_PullReturned =>
        /\ \A p \in C34_StagedBefore : index.tree[p] = pre.start.index.tree[p]
        /\ \A p \in C34_ModifiedBefore : worktree[p] = pre.start.worktree[p]

\* What does hold: uncommitted work survives every pull except the
\* fast-forward, whose forced checkout replaces it by the upstream's content.
C34_OnlyFastForwardDiscardsWork ==
    (C34_PullReturned /\ ~(sync_result.kind = "ok" /\ sync_result.value.message = Msg.fast_forward)) =>
        /\ \A p \in C34_StagedBefore : index.tree[p] = pre.start.index.tree[p]
        /\ \A p \in C34_ModifiedBefore : worktree[p] = pre.start.worktree[p]

(***************************************************************************)
(* Claims about branch operations.                                         *)
(***************************************************************************)
\* The status of the repository the operation started on has an entry.
StartedDirty ==
    /\ pre.start # NoSnapshot
    /\ StatusFiles(TreeOf(commits, HeadCommit(pre.start.head, pre.start.branches)),
                   pre.start.index, pre.start.worktree) # {}

RepositoryAsStarted ==
    /\ head = pre.start.head
    /\ branches = pre.start.branches
    /\ index = pre.start.index
    /\ worktree = pre.start.worktree
    /\ Len(commits) = pre.start.ncommits

\* C9 (as claimed): switch_branch on a repository whose status has at least
\* one entry returns success = false, has_uncommitted_changes = true and the
\* blocking paths, and changes neither HEAD nor the index nor the working tree;
\* the outcome is the same when the target branch does not exist.
C9_DirtySwitchRefused ==
    (sync_op.op = "switch_branch" /\ syncPc = "done" /\ StartedDirty) =>
        /\ sync_result.kind = "ok"
        /\ ~sync_result.value.success
        /\ sync_result.value.has_uncommitted_changes
        /\ sync_result.value.uncommitted_files =
              { e.path : e \in StatusFiles(TreeOf(commits, HeadCommit(head, branches)),
                                           index, worktree) }
        /\ RepositoryAsStarted

\* What does hold: a dirty repository is never changed by switch_branch, and
\* the refusal is returned whenever the status can be computed.
C9_DirtySwitchChangesNothing ==
    (sync_op.op = "switch_branch" /\ syncPc = "done" /\ StartedDirty) =>
        /\ RepositoryAsStarted
        /\ sync_result.kind = "ok" =>
              (~sync_result.value.success /\ sync_result.value.has_uncommitted_changes)
        /\ sync_result.kind = "err" => ~HasRef(tracking, UpstreamOf(upstream, Main))

\* switch_branch has returned an error.
C38_SwitchFailed ==
    sync_op.op = "switch_branch" /\ syncPc = "done" /\ sync_result.kind = "err"

\* C38 (as claimed): when switch_branch returns an error (target branch missing,
\* failure to set HEAD, failure of the working-tree checkout), HEAD still points
\* to the branch it pointed to before the call and the working tree is
\* unchanged.
C38_FailedSwitchLeavesHead ==
    C38_SwitchFailed =>
        /\ head = pre.start.head
        /\ worktree = pre.start.worktree

\* What holds in the code: an error returned before set_head (the status cannot
\* be read, the branch is missing) changes nothing; an error of the checkout
\* is returned with HEAD already on the target branch.
C38_FailureBeforeSetHeadLeavesHead ==
    C38_SwitchFailed =>
        /\ worktree = pre.start.worktree
        /\ index = pre.start.index
        /\ branches = pre.start.branches
        /\ sync_result # SyncErr("checkout failed") => head = pre.start.head
        /\ sync_result = SyncErr("checkout failed") =>
              /\ head = OnBranch(sync_op.name)
              /\ HasRef(branches, sync_op.name)

(***************************************************************************)
(* GitState (commands/git.rs 14-24, 181-218): the table of cancelled clone *)
(* operations.  Each command holds the mutex for its whole body, so a      *)
(* command is one step.                                                    *)
(***************************************************************************)
OperationIds == {"op1", "op2", "op3"}

NoReply == [id |-> None]
Reply(call, id, value) == [call |-> call, id |-> id, value |-> value]
Unit == "()"

\* HashMap::new, insert, remove and get(..).copied().unwrap_or(false)
EmptyMap == [id \in {} |-> TRUE]
MapInsert(map, id, value) ==
    [k \in DOMAIN map \cup {id} |-> IF k = id THEN value ELSE map[k]]
MapGetOrFalse(map, id) == IF id \in DOMAIN map THEN map[id] ELSE FALSE

\* Mutation of MapRemove: nothing is removed.
MapRemove_Nothing(map, id) == map

MapRemove(map, id) == [k \in DOMAIN map \ {id} |-> map[k]]

\* GitState::default(): an empty map.
StateInit ==
    /\ clone_operations = EmptyMap
    /\ last_call = [id \in OperationIds |-> None]
    /\ status_reply = NoReply

\* Mutation of cancel_clone_operation: cancelling interrupts the clone in flight.
cancel_clone_operation_Interrupts ==
    /\ \E operation_id \in OperationIds :
         /\ clone_operations' = MapInsert(clone_operations, operation_id, TRUE)
         /\ last_call' = [last_call EXCEPT ![operation_id] = "cancel"]
         /\ status_reply' = Reply("cancel", operation_id, Unit)
    /\ clonePc' = "returned"
    /\ clone_result' = ErrResult(SimpleErr("cancelled"))
    /\ UNCHANGED <<options, fs, fs0, events, network_progress, callbacks_fired,
                   submodules_left, lg_error, clone_started, system_git_runs>>
    /\ UNCHANGED <<authVars, syncVars, commands_done, system_git, tokenVars, classified, default_remote>>

\* cancel_clone_operation (commands/git.rs 183-193)
cancel_clone_operation ==
    /\ \E operation_id \in OperationIds :
         /\ clone_operations' = MapInsert(clone_operations, operation_id, TRUE)
         /\ last_call' = [last_call EXCEPT ![operation_id] = "cancel"]
         /\ status_reply' = Reply("cancel", operation_id, Unit)
    /\ UNCHANGED notStateVars

\* get_clone_operation_status (commands/git.rs 197-205)
get_clone_operation_status ==
    /\ \E operation_id \in OperationIds :
         status_reply' = Reply("status", operation_id,
                               MapGetOrFalse(clone_operations, operation_id))
    /\ UNCHANGED <<clone_operations, last_call, notStateVars>>

\* cleanup_clone_operation (commands/git.rs 208-218)
cleanup_clone_operation ==
    /\ \E operation_id \in OperationIds :
         /\ clone_operations' = MapRemove(clone_operations, operation_id)
         /\ last_call' = [last_call EXCEPT ![operation_id] = "cleanup"]
         /\ status_reply' = Reply("cleanup", operation_id, Unit)
    /\ UNCHANGED notStateVars

StateNext ==
    \/ cancel_clone_operation
    \/ get_clone_operation_status
    \/ cleanup_clone_operation

\* A clone while the frontend marks operation ids as cancelled.
CloneCancelInit ==
    /\ CloneInit
    /\ options = [url |-> U_https, directory |-> "dest", recursive |-> TRUE]
    /\ fs = [parent |-> TRUE, dest |-> "absent"]

CloneCancelNext ==
    \/ LgValidate
    \/ LgCheckDir
    \/ LgConnect
    \/ LgTransferProgress
    \/ LgCloneOk
    \/ LgCloneFail
    \/ LgCheckout
    \/ LgSubmodulesBegin
    \/ LgSubmodule
    \/ LgSubmodulesDone
    \/ LgFinish
    \/ CloneDispatch
    \/ SysStart
    \/ SysConnect
    \/ SysRun
    \/ SysFinish
    \/ cancel_clone_operation

(***************************************************************************)
(* Claims about the cancellation table.                                    *)
(***************************************************************************)
C19_Cancelled(id) == last_call[id] = "cancel"

\* C19: under any interleaving of cancel, status and cleanup calls, status(id)
\* returns true exactly when a cancel(id) happened with no cleanup(id) after
\* it; an id never cancelled reads false; a call on one id leaves the status
\* of the other ids as it was.
C19_StatusIsLastCancelNotCleaned ==
    /\ \A id \in OperationIds :
          MapGetOrFalse(clone_operations, id) = C19_Cancelled(id)
    /\ status_reply # NoReply /\ status_reply.call = "status" =>
          status_reply.value = C19_Cancelled(status_reply.id)
    /\ \A id \in OperationIds :
          last_call[id] = None => id \notin DOMAIN clone_operations

C19_Witness ==
    /\ status_reply = Reply("status", "op1", FALSE)
    /\ last_call = [id \in OperationIds |->
                      IF id = "op1" THEN "cleanup" ELSE IF id = "op2" THEN "cancel" ELSE None]
    /\ MapGetOrFalse(clone_operations, "op2")

\* C20: a step that changes the cancellation table changes nothing of the
\* clone (its events, its position, its result), whenever it is taken: before
\* the clone starts, while it runs or after it has returned.
C20_CancelLeavesCloneAlone ==
    [][clone_operations' # clone_operations => UNCHANGED cloneVars]_vars

\* A cancelled id is in the table while the clone returns its own result with
\* all its events emitted.
C20_Witness ==
    /\ MapGetOrFalse(clone_operations, "op1")
    /\ clonePc = "returned"
    /\ clone_result.kind = "ok"
    /\ Len(events) > 0
    /\ events[Len(events)].progress = 100

(***************************************************************************)
(* One run of the git executable for a network operation: git clone in     *)
(* clone_with_system_git (clone.rs 365-440), git fetch / push / pull in the *)
(* *_with_system_git commands (commands/git.rs 1040-1310).  Time passes in  *)
(* ticks while the process runs.                                           *)
(***************************************************************************)
SystemGitCommands == {"clone", "fetch", "push", "pull"}
NoRun == [op |-> "none", pc |-> "idle", elapsed |-> 0, result |-> "none"]
SystemGitIdle == system_git = NoRun

\* tokio::time::timeout(Duration::from_secs(30), cmd.output()) in the fetch,
\* push and pull commands (commands/git.rs 1086, 1181, 1263);
\* clone_with_system_git waits with cmd.output() (clone.rs 412).
HasTimeout(op) == op \in {"fetch", "push", "pull"}

\* The steps before the process is started: the default remote is detected
\* (fetch, push), the current branch is read (push), the strategy is parsed
\* (pull), git --version is run (clone).  Any of them may fail.
SystemGitStart ==
    /\ system_git.pc = "idle"
    /\ \E op \in SystemGitCommands, ssh_key_path \in {"none", "key"} :
         \/ system_git' = [op |-> op, ssh_key |-> ssh_key_path, pc |-> "running",
                           elapsed |-> 0, result |-> "none"]
         \/ system_git' = [op |-> op, ssh_key |-> ssh_key_path, pc |-> "returned",
                           elapsed |-> 0, result |-> "not started"]
    /\ UNCHANGED notSystemGitVars

\* The process is still running and time passes.  Under a timeout the timer
\* fires at TimeoutTicks, so no later time is seen by a waiting command.
SystemGitTick ==
    /\ system_git.pc = "running"
    /\ system_git.elapsed <= TimeoutTicks
    /\ HasTimeout(system_git.op) => system_git.elapsed < TimeoutTicks
    /\ system_git' = [system_git EXCEPT !.elapsed = @ + 1]
    /\ UNCHANGED notSystemGitVars

\* The process exits, or could not be executed: Ok(Ok(output)) with a success
\* or a failure status, Ok(Err(e)).
SystemGitExits ==
    /\ system_git.pc = "running"
    /\ \E outcome \in {"success", "failed", "not executed"} :
         system_git' = [system_git EXCEPT !.pc = "returned", !.result = outcome]
    /\ UNCHANGED notSystemGitVars

\* Err(_) of the timeout: the limit has passed and the process has not exited.
SystemGitTimesOut ==
    /\ system_git.pc = "running"
    /\ HasTimeout(system_git.op)
    /\ system_git.elapsed = TimeoutTicks
    /\ system_git' = [system_git EXCEPT !.pc = "returned", !.result = "timeout"]
    /\ UNCHANGED notSystemGitVars

SystemGitNext ==
    \/ SystemGitStart
    \/ SystemGitTick
    \/ SystemGitExits
    \/ SystemGitTimesOut

(***************************************************************************)
(* Claims about the external path.                                         *)
(***************************************************************************)
\* C21: every network operation run through the git executable returns within
\* the limit: a process that has not exited by then ends the operation with a
\* timeout error, which is not the error of a failure status.
C21_ExternalRunReturnsWithinLimit ==
    /\ system_git.elapsed <= TimeoutTicks
    /\ system_git.result = "timeout" => system_git.elapsed = TimeoutTicks

\* The part of C21 the code keeps: fetch, push and pull.
C21_FetchPushPullReturnWithinLimit ==
    HasTimeout(system_git.op) =>
      /\ system_git.elapsed <= TimeoutTicks
      /\ system_git.result = "timeout" => system_git.elapsed = TimeoutTicks

(***************************************************************************)
(* URL classification: AuthManager::detect_auth_type (auth.rs 268-277),    *)
(* detect_repository_protocol (commands/git.rs 821-843) and the clone      *)
(* validator, each applied to a URL.                                       *)
(***************************************************************************)
U_ssh_user == P_ssh \o <<"a","l","@","h","/","r">>
U_deploy_at == <<"d","@","h",":","r">>
U_git_slash == P_git_at \o <<"h","/","r">>
U_upper == <<"H","T","T","P","S",":","/","/","h","/","r">>
ClassifiedUrls == Urls \cup {U_ssh_user, U_deploy_at, U_git_slash, U_upper}

NotApplied == "not applied"
Unclassified(url) ==
    [url |-> url, auth_type |-> NotApplied, protocol |-> NotApplied,
     directory |-> NotApplied, validated |-> NotApplied]

UrlIdle == classified = Unclassified(U_empty)
UrlInit == classified \in { Unclassified(url) : url \in ClassifiedUrls }

\* AuthManager::detect_auth_type (auth.rs 268-277)
AuthTypeOf(url) ==
    IF StartsWith(url, P_git_at) \/ StartsWith(url, P_ssh) THEN "Ssh"
    ELSE IF StartsWith(url, P_https) \/ StartsWith(url, P_http) THEN "Token"
    ELSE "None"

\* detect_repository_protocol, lines 828-834
ProtocolOf(url) ==
    IF StartsWith(url, P_https) \/ StartsWith(url, P_http) THEN "https"
    ELSE IF StartsWith(url, P_git_at) \/ StartsWith(url, P_ssh) THEN "ssh"
    ELSE "unknown"

detect_auth_type ==
    /\ classified.auth_type = NotApplied
    /\ classified' = [classified EXCEPT !.auth_type = AuthTypeOf(classified.url)]
    /\ UNCHANGED notUrlVars

detect_repository_protocol ==
    /\ classified.protocol = NotApplied
    /\ classified' = [classified EXCEPT !.protocol = ProtocolOf(classified.url)]
    /\ UNCHANGED notUrlVars

\* CloneManager::validate_clone_options on the URL and a directory.
ValidateUrl ==
    /\ classified.validated = NotApplied
    /\ \E directory \in Directories :
         classified' =
           [classified EXCEPT
              !.directory = directory,
              !.validated = validate_clone_options(
                               [url |-> classified.url, directory |-> directory,
                                recursive |-> FALSE]).type]
    /\ UNCHANGED notUrlVars

UrlNext ==
    \/ detect_auth_type
    \/ detect_repository_protocol
    \/ ValidateUrl

(***************************************************************************)
(* Claims about URL classification.                                        *)
(***************************************************************************)
\* user@host:path: a user name, '@', a host, ':', a path, with no '/', ':' or
\* '@' in the user name or the host.
C24_ScpForm(url) ==
    \E i \in 2..Len(url), j \in 4..Len(url) :
      /\ i + 1 < j
      /\ j < Len(url)
      /\ url[i] = "@"
      /\ url[j] = ":"
      /\ \A k \in 1..(j - 1) : k # i => url[k] \notin {"/", ":", "@"}
C24_SshUrl(url) == StartsWith(url, P_ssh) \/ C24_ScpForm(url)
C24_HttpUrl(url) == StartsWith(url, P_http) \/ StartsWith(url, P_https)
C24_ValidatorAcceptsClassified ==
    ( /\ classified.auth_type \in {"Ssh", "Token"}
      /\ classified.validated # NotApplied
      /\ classified.directory # "" ) => classified.validated = "none"

\* C24: every URL that starts with ssh:// or has the form user@host:path, for
\* any user name, is classified SSH; every URL that starts with http:// or
\* https:// is classified HTTPS (token); the clone validator accepts every URL
\* classified SSH or HTTPS.
C24_ClassifiesSshAndHttps ==
    /\ (classified.auth_type # NotApplied /\ C24_SshUrl(classified.url)) =>
          classified.auth_type = "Ssh"
    /\ (classified.protocol # NotApplied /\ C24_SshUrl(classified.url)) =>
          classified.protocol = "ssh"
    /\ (classified.auth_type # NotApplied /\ C24_HttpUrl(classified.url)) =>
          classified.auth_type = "Token"
    /\ (classified.protocol # NotApplied /\ C24_HttpUrl(classified.url)) =>
          classified.protocol = "https"
    /\ C24_ValidatorAcceptsClassified

\* The part of C24 the code keeps: ssh://, git@ and http(s):// URLs are
\* classified as claimed, and the validator accepts what is classified.
C24_ClassifiesKnownPrefixes ==
    /\ ( /\ classified.auth_type # NotApplied
         /\ StartsWith(classified.url, P_ssh) \/ StartsWith(classified.url, P_git_at) ) =>
          classified.auth_type = "Ssh"
    /\ (classified.auth_type # NotApplied /\ C24_HttpUrl(classified.url)) =>
          classified.auth_type = "Token"
    /\ (classified.auth_type # NotApplied /\ classified.protocol # NotApplied) =>
          classified.protocol = ( CASE classified.auth_type = "Ssh" -> "ssh"
                                    [] classified.auth_type = "Token" -> "https"
                                    [] OTHER -> "unknown" )
    /\ C24_ValidatorAcceptsClassified

(***************************************************************************)
(* The token cache (commands/git.rs 881-1034, 1631-1681).  The commands    *)
(* are async and run concurrently; each call on the store (get, set and    *)
(* save, delete and save) is atomic, a command made of several calls is    *)
(* not.                                                                    *)
(***************************************************************************)
Domains == {"example.com"}
Callers == {"a", "b"}
NoToken == [token |-> None]
\* Option<i64>: None is the empty sequence, Some(t) the sequence of t.
NoTime == <<>>
SomeTime(t) == <<t>>
TokenConfig(token, username, created_at, last_used) ==
    [token |-> token, username |-> username, created_at |-> created_at,
     last_used |-> last_used]
\* A call of a command: its arguments, its position, its locals (the token
\* found, the copy of the record, the time written into the copy), its result.
Call(cmd, domain, pc) ==
    [cmd |-> cmd, domain |-> domain, pc |-> pc, found |-> None, token_config |-> NoToken,
     used_at |-> NoTime, result |-> None]
NoCall == Call("none", None, "idle")

TokenIdle ==
    /\ token_store = [d \in Domains |-> NoToken]
    /\ token_store0 = token_store
    /\ token_calls = [c \in Callers |-> NoCall]
    /\ now = 0

TokenInit ==
    /\ token_store \in [Domains -> {NoToken, TokenConfig("old", "user", 0, NoTime)}]
    /\ token_store0 = token_store
    /\ token_calls = [c \in Callers |-> NoCall]
    /\ now = 0

\* store.save(): the file is written, or the write fails.
SaveOutcomes == {"ok", "save failed"}

\* store_access_token, lines 891-897: the record that is written.  It is built
\* from the token and the user name alone.
StoredConfig(token, username, last_used) == TokenConfig(token, username, now, NoTime)

\* A command is invoked: store_access_token with a new token,
\* delete_access_token, update_token_last_used, or the token lookup of a fetch
\* or push (get_token_for_repository).
TokenCall ==
    /\ \E c \in Callers, d \in Domains :
         /\ token_calls[c].pc = "idle"
         /\ \/ token_calls' = [token_calls EXCEPT ![c] = Call("store", d, "store")]
            \/ token_calls' = [token_calls EXCEPT ![c] = Call("delete", d, "delete")]
            \/ token_calls' = [token_calls EXCEPT ![c] = Call("update", d, "update_get")]
            \/ token_calls' = [token_calls EXCEPT ![c] = Call("fetch", d, "get")]
    /\ UNCHANGED <<token_store, token_store0, now, notTokenVars>>

Returned(call, result) == [call EXCEPT !.pc = "done", !.result = result]

\* store_access_token (commands/git.rs 883-921)
store_access_token ==
    /\ \E c \in Callers, saved \in SaveOutcomes :
         LET call == token_calls[c]
         IN /\ call.pc = "store"
            /\ token_store' = [token_store EXCEPT ![call.domain] =
                                 StoredConfig("new", None, NoTime)]
            /\ token_calls' = [token_calls EXCEPT ![c] = Returned(call, saved)]
    /\ UNCHANGED <<token_store0, now, notTokenVars>>

\* delete_access_token (commands/git.rs 960-984)
delete_access_token ==
    /\ \E c \in Callers, saved \in SaveOutcomes :
         LET call == token_calls[c]
         IN /\ call.pc = "delete"
            /\ token_store' = [token_store EXCEPT ![call.domain] = NoToken]
            /\ token_calls' = [token_calls EXCEPT ![c] = Returned(call, saved)]
    /\ UNCHANGED <<token_store0, now, notTokenVars>>

\* get_token_for_repository, lines 1664-1680: the lookup of the token.
get_token_for_repository ==
    /\ \E c \in Callers :
         LET call == token_calls[c]
             found == token_store[call.domain]
         IN /\ call.pc = "get"
            /\ token_calls' = [token_calls EXCEPT ![c] =
                 IF found = NoToken
                   THEN Returned(call, [token |-> None, updated |-> "not called"])
                   ELSE [call EXCEPT !.pc = "update_get", !.found = found.token]]
    /\ UNCHANGED <<token_store, token_store0, now, notTokenVars>>

\* What the command returns once update_token_last_used has returned updated:
\* get_token_for_repository drops it (let _ =) and returns the token.
AfterUpdate(call, updated) ==
    IF call.cmd = "fetch"
      THEN Returned(call, [token |-> call.found, updated |-> updated])
      ELSE Returned(call, updated)

\* update_token_last_used, lines 1020-1021: the record is read and the time is
\* set in the caller's copy.
update_token_last_used_get ==
    /\ \E c \in Callers :
         LET call == token_calls[c]
             token_config == token_store[call.domain]
         IN /\ call.pc = "update_get"
            /\ token_calls' = [token_calls EXCEPT ![c] =
                 IF token_config = NoToken THEN AfterUpdate(call, "no token")
                 ELSE [call EXCEPT !.pc = "update_store",
                                   !.token_config =
                                       [token_config EXCEPT !.last_used = SomeTime(now)],
                                   !.used_at = SomeTime(now)]]
    /\ UNCHANGED <<token_store, token_store0, now, notTokenVars>>

\* update_token_last_used, lines 1024-1030: store_access_token is called with
\* the domain, the token and the user name of the copy.
update_token_last_used_store ==
    /\ \E c \in Callers, saved \in SaveOutcomes :
         LET call == token_calls[c]
         IN /\ call.pc = "update_store"
            /\ token_store' = [token_store EXCEPT ![call.domain] =
                                 StoredConfig(call.token_config.token,
                                              call.token_config.username,
                                              call.token_config.last_used)]
            /\ token_calls' = [token_calls EXCEPT ![c] = AfterUpdate(call, saved)]
    /\ UNCHANGED <<token_store0, now, notTokenVars>>

TimePasses ==
    /\ now < MaxTime
    /\ now' = now + 1
    /\ UNCHANGED <<token_store, token_store0, token_calls, notTokenVars>>

TokenNext ==
    \/ TokenCall
    \/ store_access_token
    \/ delete_access_token
    \/ get_token_for_repository
    \/ update_token_last_used_get
    \/ update_token_last_used_store
    \/ TimePasses

(***************************************************************************)
(* Claims about the token cache.                                           *)
(***************************************************************************)
\* The caller ran alone: the other caller never started.
C22_Alone(c) == \A o \in Callers \ {c} : token_calls[o].pc = "idle"
C22_TokenUsed(c) ==
    /\ token_calls[c].cmd = "fetch"
    /\ token_calls[c].pc = "done"
    /\ token_calls[c].result.token # None
    /\ token_calls[c].result.updated = "ok"

\* C22: after a fetch or push has found a cached token for the host and the
\* write of the cache succeeded, the record of the host has last_used set to
\* the time of that use.
C22_LastUsedIsTimeOfUse ==
    \A c \in Callers :
      (C22_TokenUsed(c) /\ C22_Alone(c)) =>
         /\ token_store[token_calls[c].domain] # NoToken
         /\ token_store[token_calls[c].domain].last_used = token_calls[c].used_at

\* The part of C22 the code keeps: a failure of the update does not reach the
\* fetch or push, which gets the token it found.
C22_UpdateFailureNotPropagated ==
    \A c \in Callers :
      (token_calls[c].cmd = "fetch" /\ token_calls[c].pc = "done") =>
         \/ token_calls[c].result.token = None /\ token_calls[c].result.updated = "not called"
         \/ token_calls[c].result.token = "old"
         \/ token_calls[c].result.token = "new"

\* update_token_last_used was called directly, ran alone and has returned.
C40_Updated(c) ==
    /\ token_calls[c].cmd = "update"
    /\ token_calls[c].pc = "done"
    /\ C22_Alone(c)

\* C40 (as claimed): update_token_last_used changes only the last_used field of
\* an existing record: token, username and created_at of the record after the
\* update equal their values before it, and a domain without a record gets no
\* record.
C40_UpdateChangesOnlyLastUsed ==
    \A c \in Callers :
      C40_Updated(c) =>
         LET before == token_store0[token_calls[c].domain]
             after == token_store[token_calls[c].domain]
         IN IF before = NoToken THEN after = NoToken
            ELSE /\ after # NoToken
                 /\ after.token = before.token
                 /\ after.username = before.username
                 /\ after.created_at = before.created_at

\* What holds in the code: token and user name are kept and a missing record
\* stays missing; the record is written anew, with created_at at the time of
\* the write and no last_used.
C40_UpdateKeepsTokenAndUser ==
    \A c \in Callers :
      C40_Updated(c) =>
         LET before == token_store0[token_calls[c].domain]
             after == token_store[token_calls[c].domain]
         IN IF before = NoToken
            THEN after = NoToken /\ token_calls[c].result = "no token"
            ELSE /\ after # NoToken
                 /\ after.token = before.token
                 /\ after.username = before.username
                 /\ after.created_at >= token_calls[c].used_at[1]
                 /\ after.created_at <= now
                 /\ after.last_used = NoTime

\* The token and the user name of a record.
C23_Content(config) ==
    IF config = NoToken THEN NoToken
    ELSE [token |-> config.token, username |-> config.username]
\* The content of the record after the command has run alone on a store whose
\* record has the content given.
C23_RunAlone(cmd, content) ==
    CASE cmd = "store" -> [token |-> "new", username |-> None]
      [] cmd = "delete" -> NoToken
      [] OTHER -> content
C23_AllReturned == \A c \in Callers : token_calls[c].pc = "done"
C23_SequentialOutcomes(d) ==
    { C23_RunAlone(token_calls[order[2]].cmd,
                   C23_RunAlone(token_calls[order[1]].cmd, C23_Content(token_store0[d]))) :
        order \in { o \in Callers \X Callers : o[1] # o[2] } }

\* C23: concurrent token-cache commands on one domain are serialized: when
\* they have returned, the record of the domain is the one some sequential
\* order of the commands leaves; a last-used update never writes the old token
\* back over a new one.
C23_TokenCommandsSerialized ==
    C23_AllReturned =>
      \A d \in Domains : C23_Content(token_store[d]) \in C23_SequentialOutcomes(d)

\* The part of C23 the code keeps: the commands that are one call on the
\* store (store, delete) are serialized with each other.
C23_StoreAndDeleteSerialized ==
    (C23_AllReturned /\ \A c \in Callers : token_calls[c].cmd \in {"store", "delete"}) =>
      \A d \in Domains : C23_Content(token_store[d]) \in C23_SequentialOutcomes(d)

(***************************************************************************)
(* Default remote detection: get_default_remote_name (operations.rs        *)
(* 627-692) applied to a repository configuration.  A name is the sequence *)
(* of its parts between slashes, so that the search for the first slash is *)
(* computed and not assumed.                                               *)
(***************************************************************************)
MaxRemotes == 2      \* at most this many remotes are configured

\* Names a remote can carry; the last one holds a slash.
RemoteNameChoices ==
    { <<"origin">>, <<"upstream">>, <<"gitlab">>, <<"fork">>, <<"team", "fork">> }

\* The lists of configured remotes, in the order repo.remotes() returns them.
RemoteLists ==
    { l \in UNION { [1..n -> RemoteNameChoices] : n \in 0..MaxRemotes } :
        \A i, j \in 1..Len(l) : i # j => l[i] # l[j] }

\* branch.<name>.remote of the current branch: unset, "." (the upstream is a
\* local branch) or the name of a remote.
LocalUpstream == <<".">>
NoUpstream == <<>>
BranchRemoteChoices == {NoUpstream, LocalUpstream} \cup RemoteNameChoices

HeadKinds == {"branch", "detached", "unborn"}

RemoteConfigs ==
    { c \in [remotes : RemoteLists, head : HeadKinds, branch_remote : BranchRemoteChoices] :
        c.head # "branch" => c.branch_remote = NoUpstream }

NoName == <<>>
RemoteOk(name) == [ok |-> TRUE, name |-> name, error |-> "none"]
RemoteErr(message) == [ok |-> FALSE, name |-> NoName, error |-> message]

InList(l, name) == \E i \in 1..Len(l) : l[i] = name

\* Repository::branch_upstream_name("refs/heads/<current>"): the name of the
\* upstream reference, or <<>> when it fails: the branch has no upstream
\* configuration or its remote is not configured.  A detached HEAD has the
\* shorthand "HEAD", for which no branch configuration exists.
branch_upstream_name(c) ==
    IF c.head # "branch" \/ c.branch_remote = NoUpstream THEN <<>>
    ELSE IF c.branch_remote = LocalUpstream THEN <<"refs", "heads", "main">>
    ELSE IF InList(c.remotes, c.branch_remote)
      THEN <<"refs", "remotes">> \o c.branch_remote \o <<"main">>
    ELSE <<>>

\* Lines 642-648: strip_prefix("refs/remotes/") and the text before the
\* first slash of the rest; <<>> when either is missing.
RemoteOfUpstream(upstream_str) ==
    IF Len(upstream_str) >= 4 /\ SubSeq(upstream_str, 1, 2) = <<"refs", "remotes">>
      THEN <<upstream_str[3]>>
      ELSE <<>>

preferred_remotes == << <<"origin">>, <<"upstream">>, <<"github">>, <<"gitlab">> >>

\* Lines 668-679: the first name of preferred_remotes that is in the list.
FirstPreferred(remotes) ==
    LET found == { i \in 1..Len(preferred_remotes) : InList(remotes, preferred_remotes[i]) }
    IN IF found = {} THEN NoName
       ELSE preferred_remotes[CHOOSE i \in found : \A j \in found : i <= j]

\* get_default_remote_name (operations.rs 627-692)
get_default_remote_name(c) ==
    IF c.head # "unborn" /\ RemoteOfUpstream(branch_upstream_name(c)) # <<>>
      THEN RemoteOk(RemoteOfUpstream(branch_upstream_name(c)))
    ELSE IF Len(c.remotes) = 0 THEN RemoteErr("no remote configured")
    ELSE IF FirstPreferred(c.remotes) # NoName THEN RemoteOk(FirstPreferred(c.remotes))
    ELSE RemoteOk(c.remotes[1])

NotDetected == [ok |-> FALSE, name |-> NoName, error |-> "not applied"]
RemoteIdle ==
    default_remote = [config |-> [remotes |-> <<>>, head |-> "unborn",
                                  branch_remote |-> NoUpstream],
                      result |-> NotDetected]
RemoteInit ==
    default_remote \in { [config |-> c, result |-> NotDetected] : c \in RemoteConfigs }

DetectDefaultRemote ==
    /\ default_remote.result = NotDetected
    /\ default_remote' =
          [default_remote EXCEPT !.result = get_default_remote_name(default_remote.config)]
    /\ UNCHANGED notRemoteVars

RemoteNext == DetectDefaultRemote

(***************************************************************************)
(* Claims about default remote detection.                                  *)
(***************************************************************************)
C31_Detected == default_remote.result # NotDetected

\* The current branch has an upstream on a configured remote.
C31_TracksRemote(c) == c.head = "branch" /\ InList(c.remotes, c.branch_remote)

\* The current branch has an upstream: on a remote, or a local branch.
C31_HasUpstream(c) ==
    C31_TracksRemote(c) \/ (c.head = "branch" /\ c.branch_remote = LocalUpstream)

\* The answer the list of remotes gives: the first name of the priority list
\* that is configured, else the first configured remote.
C31_FromList(remotes, result) ==
    IF \E i \in 1..4 : InList(remotes, preferred_remotes[i])
      THEN \E i \in 1..4 :
              /\ result = RemoteOk(preferred_remotes[i])
              /\ InList(remotes, preferred_remotes[i])
              /\ \A j \in 1..(i - 1) : ~InList(remotes, preferred_remotes[j])
    ELSE IF remotes # <<>> THEN result = RemoteOk(remotes[1])
    ELSE ~result.ok

\* C31 (as claimed): get_default_remote_name returns the remote of the current
\* branch's upstream when the branch has one; otherwise the first configured
\* name of origin, upstream, github, gitlab; otherwise the first configured
\* remote; it fails if and only if the branch has no upstream and no remote is
\* configured; a name taken from the list is a configured remote.
C31_ReturnsUpstreamRemoteElseListed ==
    C31_Detected =>
        LET c == default_remote.config
            r == default_remote.result
        IN /\ C31_TracksRemote(c) => r = RemoteOk(c.branch_remote)
           /\ ~C31_HasUpstream(c) =>
                 /\ C31_FromList(c.remotes, r)
                 /\ r.ok => InList(c.remotes, r.name)
           /\ ~r.ok <=> (~C31_HasUpstream(c) /\ c.remotes = <<>>)

\* What does hold: the upstream's remote is returned when its name has no
\* slash; a branch without an upstream on a remote (none, or a local branch)
\* gets the answer of the list, which is a configured remote; the call fails
\* exactly when that list is consulted and is empty.
C31_ReturnsUpstreamRemoteUpToSlash ==
    C31_Detected =>
        LET c == default_remote.config
            r == default_remote.result
        IN /\ C31_TracksRemote(c) => r = RemoteOk(<<c.branch_remote[1]>>)
           /\ ~C31_TracksRemote(c) =>
                 /\ C31_FromList(c.remotes, r)
                 /\ r.ok => InList(c.remotes, r.name)
           /\ ~r.ok <=> (~C31_TracksRemote(c) /\ c.remotes = <<>>)

(***************************************************************************)
(* The specifications.                                                     *)
(***************************************************************************)
CloneIdle ==
    /\ options = [url |-> U_empty, directory |-> "", recursive |-> FALSE]
    /\ fs = [parent |-> FALSE, dest |-> "absent"]
    /\ fs0 = fs
    /\ clonePc = "idle"
    /\ events = <<>>
    /\ network_progress = NoProgress
    /\ callbacks_fired = 0
    /\ submodules_left = 0
    /\ lg_error = NoError
    /\ clone_started = FALSE
    /\ system_git_runs = 0
    /\ clone_result = NoResult

AuthIdle ==
    /\ auth_call = [op |-> "none"]
    /\ authPc = "idle"
    /\ auth_attempts = 0
    /\ creds_handed = <<>>
    /\ server_rejects = 0
    /\ auth_error = NoError

\* No repository is open.
RepoIdle ==
    /\ commits = <<>>
    /\ branches = (Main :> 0)
    /\ tracking = (OriginMain :> 0)
    /\ upstream = (Main :> None)
    /\ remote_tip = 0
    /\ head = OnBranch(Main)
    /\ index = CleanIndex(EmptyTree)
    /\ worktree = EmptyTree
    /\ rebase = NoRebase
    /\ merge_head = 0
    /\ SyncIdle

\* One clone command.
InitClone == AuthIdle /\ RepoIdle /\ StateInit /\ UrlIdle /\ RemoteIdle /\ SystemGitIdle /\ TokenIdle /\ CloneInit
SpecClone == InitClone /\ [][CloneNext]_vars

\* One remote operation asking for credentials.
InitAuth == CloneIdle /\ RepoIdle /\ StateInit /\ UrlIdle /\ RemoteIdle /\ SystemGitIdle /\ TokenIdle /\ AuthInit
SpecAuth == InitAuth /\ [][AuthNext]_vars

\* One fetch, pull or push on a repository.
InitSync == CloneIdle /\ AuthIdle /\ StateInit /\ UrlIdle /\ RemoteIdle /\ SystemGitIdle /\ TokenIdle /\ SyncInit
SpecSync == InitSync /\ [][SyncNext]_vars

\* One branch operation on a repository.
InitBranch == CloneIdle /\ AuthIdle /\ StateInit /\ UrlIdle /\ RemoteIdle /\ SystemGitIdle /\ TokenIdle /\ BranchInit
SpecBranch == InitBranch /\ [][BranchNext]_vars

(***************************************************************************)
(* Claims about the branch commands.                                       *)
(***************************************************************************)
C15_Deleted == sync_op.op = "delete_branch" /\ syncPc = "done"
C15_Kept ==
    /\ sync_result.kind = "err"
    /\ branches[sync_op.name] = pre.start.branches[sync_op.name]
C15_WasCurrent == pre.start.head = OnBranch(sync_op.name)
C15_WasAhead ==
    LET was == pre.start
        up == was.upstream[sync_op.name]
    IN /\ HasRef(was.branches, sync_op.name)
       /\ up # None
       /\ HasRef(was.tracking, up)
       /\ \E c \in 1..Len(commits) :
            /\ c \in Ancestors(commits, was.branches[sync_op.name])
            /\ c \notin Ancestors(commits, was.tracking[up])

\* C15: delete_branch refuses the branch HEAD points to; without force it
\* refuses a branch that has an upstream and is ahead of it; in both cases the
\* branch is still there afterwards.  With force, or when the branch is not
\* ahead, an existing branch that is not current is deleted.
C15_DeleteBranchRefusals ==
    C15_Deleted =>
      /\ C15_WasCurrent => C15_Kept
      /\ (~sync_op.force /\ C15_WasAhead) => C15_Kept
      /\ ( /\ ~C15_WasCurrent
           /\ HasRef(pre.start.branches, sync_op.name)
           /\ sync_op.force \/ ~C15_WasAhead ) =>
            /\ sync_result = BranchResult(TRUE)
            /\ ~HasRef(branches, sync_op.name)

C15_Witness ==
    /\ C15_Deleted
    /\ ~C15_WasCurrent
    /\ ~sync_op.force
    /\ C15_WasAhead
    /\ C15_Kept
    /\ HasRef(branches, sync_op.name)

C16_CheckedOut == sync_op.op = "checkout_remote_branch" /\ syncPc = "done"
C16_SwitchFailed ==
    /\ C16_CheckedOut
    /\ sync_result.kind = "err"
    /\ sync_result.error \in {"checked out but the switch failed", "upstream reference not found"}

\* C16: when checkout_remote_branch created the local branch and the switch to
\* it did not succeed (uncommitted changes, or an error of the switch step), the
\* local branch is gone when the call returns and HEAD is where it was.
C16_FailedSwitchRemovesCreatedBranch ==
    C16_SwitchFailed =>
      /\ ~HasRef(branches, sync_op.name)
      /\ head = pre.start.head

\* The part of C16 the code keeps: a switch refused for uncommitted changes
\* removes the branch, and HEAD never moves on a failure.
C16_RefusedSwitchRemovesCreatedBranch ==
    C16_SwitchFailed =>
      /\ head = pre.start.head
      /\ sync_result.error = "checked out but the switch failed" =>
            /\ branches = pre.start.branches
            /\ upstream = pre.start.upstream

C17_Created == sync_op.op = "create_branch" /\ syncPc = "done"
C17_WasClean ==
    /\ pre.start.index.tree = pre.start.worktree
    /\ pre.start.index.conflicts = {}
    /\ pre.start.worktree = TreeOf(commits, HeadCommit(pre.start.head, pre.start.branches))
\* The commit the caller chose: that of HEAD, or the one whose id starts with
\* the given digits.
C17_Chosen ==
    IF sync_op.from = NoFrom THEN HeadCommit(pre.start.head, pre.start.branches)
    ELSE IF sync_op.from.text = "hex" /\
            \E c \in 1..Len(commits) :
               SubSeq(OidOf(c), 1, Len(sync_op.from.digits)) = sync_op.from.digits
      THEN CHOOSE c \in 1..Len(commits) :
               SubSeq(OidOf(c), 1, Len(sync_op.from.digits)) = sync_op.from.digits
    ELSE 0
\* The case of the claim; a checkout that fails on its own account (the object
\* cannot be read, a file cannot be written) is not part of it.
C17_Case ==
    /\ C17_Created
    /\ sync_op.checkout
    /\ C17_WasClean
    /\ ~HasRef(pre.start.branches, sync_op.name)
    /\ C17_Chosen # 0
    /\ sync_result # SyncErr("checkout failed")
C17_Outcome ==
    /\ sync_result = BranchResult(TRUE)
    /\ head = OnBranch(sync_op.name)
    /\ branches[sync_op.name] = C17_Chosen
    /\ \E b \in list_branches :
         /\ b.name = sync_op.name
         /\ ~b.is_remote
         /\ b.ahead = 0
         /\ b.behind = 0

\* C17: in a clean repository, creating a branch with a new name from HEAD or
\* from an existing commit given by its full or abbreviated id and switching to
\* it succeeds; HEAD is then on the new branch, the branch is at the chosen
\* commit and its entry in the branch list has ahead = 0 and behind = 0.
C17_CreateAndSwitchSucceeds == C17_Case => C17_Outcome

\* The part of C17 the code keeps: with a full id or from HEAD, and a current
\* branch whose status can be read.
C17_CreateFromFullIdSucceeds ==
    ( /\ C17_Case
      /\ sync_op.from.text = "hex" => Len(sync_op.from.digits) = OidLen
      /\ get_ahead_behind_count(commits, pre.start.head, pre.start.branches,
                                pre.start.upstream, pre.start.tracking).ok ) => C17_Outcome

\* create_branch was called with checkout = true and has returned.
C39_CreatedWithCheckout == C17_Created /\ sync_op.checkout
C39_Succeeded == sync_result.kind = "ok" /\ sync_result.value.success

\* The working tree had uncommitted changes: the branch was created and the
\* switch to it was refused with success = false.
C39_RefusedAfterCreate ==
    /\ C39_CreatedWithCheckout
    /\ sync_result.kind = "ok"
    /\ ~sync_result.value.success
    /\ ~HasRef(pre.start.branches, sync_op.name)
    /\ HasRef(branches, sync_op.name)

\* C39 (as claimed): create_branch with checkout = true is all-or-nothing: when
\* it returns success = false or an error, the call has left no branch of the
\* requested name behind and HEAD is unchanged; when it returns success = true
\* the branch exists and is the current branch.
C39_CreateWithCheckoutAllOrNothing ==
    C39_CreatedWithCheckout =>
        IF C39_Succeeded
        THEN HasRef(branches, sync_op.name) /\ head = OnBranch(sync_op.name)
        ELSE branches = pre.start.branches /\ head = pre.start.head

\* What holds in the code: success = true means the branch exists and is
\* current; a call refused before repo.branch (name taken, start point not
\* resolved) changes nothing; once the branch is created a refused or failed
\* switch returns with the branch in place.
C39_RefusedSwitchKeepsCreatedBranch ==
    C39_CreatedWithCheckout =>
        /\ C39_Succeeded => (HasRef(branches, sync_op.name) /\ head = OnBranch(sync_op.name))
        /\ (sync_result.kind = "err" /\ sync_result.error \in
                {"branch exists", "cannot find branch, commit or reference", "object not found",
                 "cannot get the target of the reference", "reference not found"}) =>
              /\ branches = pre.start.branches
              /\ head = pre.start.head
        /\ (~C39_Succeeded /\ ~HasRef(pre.start.branches, sync_op.name)
              /\ sync_result.kind = "ok") =>
              /\ sync_result.value.has_uncommitted_changes
              /\ HasRef(branches, sync_op.name)
              /\ head = pre.start.head
        /\ sync_result = SyncErr("checkout failed") =>
              /\ HasRef(branches, sync_op.name)
              /\ head = OnBranch(sync_op.name)

\* One of the four attempts resolves from_commit in the repository the call
\* started on: it names a local branch, is the full id of a commit, or names
\* a reference that leads to a commit.
C30_Resolves(from_commit) ==
    \/ /\ from_commit.text = "name"
       /\ HasRef(pre.start.branches, from_commit.name)
    \/ /\ from_commit.text = "hex"
       /\ Len(from_commit.digits) = OidLen
       /\ \E c \in 1..Len(commits) : OidOf(c) = from_commit.digits
    \/ /\ from_commit.text = "ref"
       /\ from_commit.refname = RefHead
       /\ HeadResolves(pre.start.head, pre.start.branches)
    \/ /\ from_commit.text = "ref"
       /\ from_commit.refname.space = "refs/heads"
       /\ HasRef(pre.start.branches, from_commit.refname.name)

C30_NoReferenceChanged ==
    /\ branches = pre.start.branches
    /\ tracking = pre.start.tracking
    /\ head = pre.start.head

\* The call failed in one of its own tests (a checkout that could not read an
\* object or write a file is left aside).
C30_Failed == sync_result.kind = "err" /\ sync_result # SyncErr("checkout failed")

\* C30 (as claimed): create_branch fails and changes no reference when the
\* name is taken; otherwise, given a start point, it fails only when none of
\* the four attempts resolves it, and a failed call has created no branch.
C30_CreateFailsOnlyWhenNothingResolves ==
    C17_Created =>
        /\ HasRef(pre.start.branches, sync_op.name) =>
              C30_Failed /\ C30_NoReferenceChanged
        /\ (~HasRef(pre.start.branches, sync_op.name) /\ sync_op.from # NoFrom) =>
              /\ C30_Failed => ~C30_Resolves(sync_op.from)
              /\ C30_Failed => branches = pre.start.branches

\* What does hold: a taken name is refused with nothing changed, and a call
\* that fails before the branch is created (the start point is not found, or
\* is a reference without a target such as HEAD on a branch) creates none.
C30_RefusedCreateChangesNothing ==
    C17_Created =>
        /\ HasRef(pre.start.branches, sync_op.name) =>
              sync_result = SyncErr("branch exists") /\ C30_NoReferenceChanged
        /\ (C30_Failed /\ sync_result.error \in
                {"cannot find branch, commit or reference", "object not found",
                 "cannot get the target of the reference", "reference not found"}) =>
              C30_NoReferenceChanged
        /\ (~HasRef(pre.start.branches, sync_op.name) /\ sync_op.from # NoFrom
              /\ ~C30_Resolves(sync_op.from)) => C30_Failed

C18_Current == { b \in list_branches : b.is_current }

\* C18: in every result of list_branches at most one local entry is current,
\* no remote entry is current and no entry is a remote HEAD pseudo-branch;
\* after any sequence of branch commands the entry marked current is the
\* branch HEAD points to, and after a successful switch to B it is B.
C18_ListMarksTheCurrentBranch ==
    /\ Cardinality({ b \in C18_Current : ~b.is_remote }) <= 1
    /\ \A b \in list_branches : b.is_remote => ~b.is_current
    /\ \A b \in list_branches : b.name # "origin/HEAD"
    /\ \A b \in C18_Current : head = OnBranch(b.name)
    /\ (head.kind = "branch" /\ HasRef(branches, head.name)) =>
          \E b \in C18_Current : b.name = head.name /\ ~b.is_remote
    /\ ( /\ syncPc = "done"
         /\ sync_op.op = "switch_branch"
         /\ sync_result = BranchResult(TRUE) ) =>
          { b.name : b \in C18_Current } = {sync_op.name}

C18_Witness ==
    /\ commands_done > 0
    /\ syncPc = "done"
    /\ sync_op.op = "switch_branch"
    /\ sync_result = BranchResult(TRUE)
    /\ pre.start.head.kind = "branch"
    /\ sync_op.name # pre.start.head.name
    /\ HasRef(tracking, "origin/HEAD")
    /\ C18_Current # {}

\* The commands of GitState on their own.
InitCancel == CloneIdle /\ AuthIdle /\ RepoIdle /\ StateInit /\ UrlIdle /\ RemoteIdle /\ SystemGitIdle /\ TokenIdle
SpecCancel == InitCancel /\ [][StateNext]_vars

InitCloneCancel == AuthIdle /\ RepoIdle /\ StateInit /\ UrlIdle /\ RemoteIdle /\ SystemGitIdle /\ TokenIdle /\ CloneCancelInit
SpecCloneCancel == InitCloneCancel /\ [][CloneCancelNext]_vars

\* One run of the git executable.
InitSystemGit == CloneIdle /\ AuthIdle /\ RepoIdle /\ StateInit /\ UrlIdle /\ RemoteIdle /\ SystemGitIdle /\ TokenIdle
SpecSystemGit == InitSystemGit /\ [][SystemGitNext]_vars

\* Two callers of the token commands.
InitTokens == CloneIdle /\ AuthIdle /\ RepoIdle /\ StateInit /\ UrlIdle /\ RemoteIdle /\ SystemGitIdle /\ TokenInit
SpecTokens == InitTokens /\ [][TokenNext]_vars

\* The classifying functions applied to a URL.
InitUrl == CloneIdle /\ AuthIdle /\ RepoIdle /\ StateInit /\ UrlInit /\ RemoteIdle /\ SystemGitIdle /\ TokenIdle
SpecUrl == InitUrl /\ [][UrlNext]_vars

\* get_default_remote_name applied to a repository configuration.
InitRemote == CloneIdle /\ AuthIdle /\ RepoIdle /\ StateInit /\ UrlIdle /\ RemoteInit /\ SystemGitIdle /\ TokenIdle
SpecRemote == InitRemote /\ [][RemoteNext]_vars

\* A sequence of branch commands on a repository.
InitBranches == CloneIdle /\ AuthIdle /\ StateInit /\ UrlIdle /\ RemoteIdle /\ SystemGitIdle /\ TokenIdle /\ BranchesInit
SpecBranches == InitBranches /\ [][BranchesNext]_vars

====
